---- MODULE Spec2Model ----
(***************************************************************************)
(* The capture server of the soundboard (src/bin/pipewire_source.rs): the  *)
(* engine state behind its mutex, the PipeWire callbacks that touch it,    *)
(* the control-socket listener thread with the connections it serves, and  *)
(* the recording writer with the files it leaves behind; its client        *)
(* send_audio_command (src/lib.rs); and the panel program (src/main.rs)    *)
(* with its event loop, which drives the server through that client.       *)
(***************************************************************************)
EXTENDS Integers, Sequences, FiniteSets, TLC

\* ------------------------------------------------------------------ bounds
\* Lines the clients write to the control socket in total.
MaxLines == 2
\* Samples the engine's buffer holds at most in the model.
MaxBuf == 2
\* Connections to the control socket, each opened at most once.
Conns == {1, 2}
\* Calls of send_audio_command, each on a connection of its own.
MaxClients == 3
Clients == 1..MaxClients
\* Commands the panel program sends while it runs, each on a connection of
\* its own.
MaxCommands == 3
PanelConns == 1..MaxCommands
\* Panel devices list_devices yields.
MaxDevices == 2
\* The keys whose recordings an earlier run of the panel program left.
EarlierRecordings == {{}, {1}}
\* Playback tasks running at one time.
MaxPlaybacks == 1
\* Keys with a recording file, and the dials.
Keys == {0, 1}
Dials == {0, 1}
\* The file each sender records to: one fixed file per sender, as the panel
\* keeps one per key; the files share the parent directory.
PathOf(c) == IF c = 1 THEN "/rec/a.wav" ELSE "/rec/b.wav"
\* Destination paths a Start may name.
Paths == {PathOf(c) : c \in Conns}
\* Formats the stream may negotiate: (rate, channels).
Formats == {<<48000, 2>>, <<44100, 1>>}
\* Sample chunks the stream may deliver.
Chunks == {<<1>>, <<2>>}

\* ------------------------------------------------------------ data types
\* Option<T>
None == [tag |-> "None"]
Some(v) == [tag |-> "Some", v |-> v]

\* enum State { Listening, Recording(PathBuf) }
Listening == [tag |-> "Listening"]
Recording(p) == [tag |-> "Recording", path |-> p]

\* enum AudioCommand { Start(PathBuf), Stop, Status }
Start(p) == [tag |-> "Start", path |-> p]
Stop == [tag |-> "Stop"]
Status == [tag |-> "Status"]
Commands == {Start(p) : p \in Paths} \cup {Stop, Status}

\* enum AudioResponse { Status(String), Ok, Error(String) }
Ok == [tag |-> "Ok"]
Error(m) == [tag |-> "Error", msg |-> m]
StatusResponse(d) == [tag |-> "Status", desc |-> d]

\* struct UserData { format, state, buffer }
UserData(f, s, b) == [format |-> f, state |-> s, buffer |-> b]

\* ---------------------------------------------------------- wire format
\* serde_json::to_string(&AudioCommand): {"Start":"<path>"}, "Stop", "Status",
\* one line each; a line is modelled as the sequence of its JSON tokens.
Encode(cmd) ==
    IF cmd.tag = "Start" THEN <<"Start", cmd.path>> ELSE <<cmd.tag>>

\* Lines a client may write: a Start for its file, Stop, Status, and one
\* line that is no command.
LinesOf(c) == {Encode(Start(PathOf(c))), Encode(Stop), Encode(Status),
               <<"Bogus">>}

\* Commands a caller of send_audio_command may send: a Start for its file,
\* Stop, Status.
CommandsOf(c) == {Start(PathOf(c)), Stop, Status}

\* serde_json::from_str::<AudioCommand>(line.trim())
Parse(l) ==
    IF Len(l) = 2 /\ l[1] = "Start" /\ l[2] \in Paths
        THEN [ok |-> TRUE, cmd |-> Start(l[2])]
    ELSE IF l = <<"Stop">> THEN [ok |-> TRUE, cmd |-> Stop]
    ELSE IF l = <<"Status">> THEN [ok |-> TRUE, cmd |-> Status]
    ELSE [ok |-> FALSE, cmd |-> Status]

\* format!("{:?}", state)
Debug(s) ==
    IF s.tag = "Recording" THEN <<"Recording", s.path>> ELSE <<"Listening">>

\* ------------------------------------------------------ the engine's steps
\* What the stream hands to the callbacks.
Params ==
    {[kind |-> k, info |-> <<0, 0>>] :
        k \in {"no_param", "other_id", "unparsable", "not_raw_audio"}}
    \cup {[kind |-> "format", info |-> f] : f \in Formats}
Deliveries ==
    {[kind |-> k, samples |-> <<>>] :
        k \in {"out_of_buffers", "no_datas", "unmapped"}}
    \cup {[kind |-> "chunk", samples |-> c] : c \in Chunks}

\* The result of one command under the lock.
Handled(ud, response, save_data, panicked) ==
    [ud |-> ud, response |-> response, save_data |-> save_data,
     panicked |-> panicked]

\* Start without the check of the format.
HandleStart_NoFormatCheck(ud, path) ==
    IF ud.state.tag = "Listening"
        THEN Handled([ud EXCEPT !.state = Recording(path), !.buffer = <<>>],
                     Ok, None, FALSE)
    ELSE Handled(ud, Error("Already recording"), None, FALSE)

\* Start with buffer.clear() moved out of the match on the state.
HandleStart_ClearsAlways(ud, path) ==
    IF ud.format.tag = "None"
        THEN Handled(ud, Error("Format not known"), None, FALSE)
    ELSE IF ud.state.tag = "Listening"
        THEN Handled([ud EXCEPT !.state = Recording(path), !.buffer = <<>>],
                     Ok, None, FALSE)
    ELSE Handled([ud EXCEPT !.buffer = <<>>],
                 Error("Already recording"), None, FALSE)

\* Start without the match on the state: a recording is restarted.
HandleStart_Restart(ud, path) ==
    IF ud.format.tag = "None"
        THEN Handled(ud, Error("Format not known"), None, FALSE)
    ELSE Handled([ud EXCEPT !.state = Recording(path), !.buffer = <<>>],
                 Ok, None, FALSE)

\* Start that replaces the state first and looks at the old one after, as
\* Stop does.
HandleStart_ReplaceFirst(ud, path) ==
    IF ud.format.tag = "None"
        THEN Handled(ud, Error("Format not known"), None, FALSE)
    ELSE IF ud.state.tag = "Listening"
        THEN Handled([ud EXCEPT !.state = Recording(path), !.buffer = <<>>],
                     Ok, None, FALSE)
    ELSE Handled([ud EXCEPT !.state = Recording(path)],
                 Error("Already recording"), None, FALSE)

\* AudioCommand::Start(path) under the lock.
HandleStart(ud, path) ==
    IF ud.format.tag = "None"
        THEN Handled(ud, Error("Format not known"), None, FALSE)
    ELSE IF ud.state.tag = "Listening"
        THEN Handled([ud EXCEPT !.state = Recording(path), !.buffer = <<>>],
                     Ok, None, FALSE)
    ELSE Handled(ud, Error("Already recording"), None, FALSE)

\* Stop that hands the buffer to the writer whatever the state was.
HandleStop_AlwaysSaves(ud) ==
    LET old_state == ud.state
        replaced == [ud EXCEPT !.state = Listening]
    IN  IF ud.format.tag = "None"
            THEN Handled(replaced, Error("Not recording"), None, FALSE)
        ELSE Handled([replaced EXCEPT !.buffer = <<>>],
                     IF old_state.tag = "Recording"
                        THEN Ok ELSE Error("Not recording"),
                     Some([buffer |-> ud.buffer,
                           format |-> ud.format.v,
                           path |-> IF old_state.tag = "Recording"
                                       THEN old_state.path
                                       ELSE CHOOSE p \in Paths : TRUE]),
                     FALSE)

\* Stop that clones the buffer instead of taking it.
HandleStop_ClonesBuffer(ud) ==
    LET old_state == ud.state
        replaced == [ud EXCEPT !.state = Listening]
    IN  IF old_state.tag = "Recording"
            THEN IF ud.format.tag = "None"
                    THEN Handled(replaced, Ok, None, TRUE)
                 ELSE Handled(replaced, Ok,
                              Some([buffer |-> ud.buffer,
                                    format |-> ud.format.v,
                                    path |-> old_state.path]),
                              FALSE)
        ELSE Handled(replaced, Error("Not recording"), None, FALSE)

\* AudioCommand::Stop under the lock: mem::replace the state, and for a
\* recording mem::take the buffer and unwrap the format.
HandleStop(ud) ==
    LET old_state == ud.state
        replaced == [ud EXCEPT !.state = Listening]
    IN  IF old_state.tag = "Recording"
            THEN IF ud.format.tag = "None"
                    THEN Handled([replaced EXCEPT !.buffer = <<>>], Ok, None,
                                 TRUE)
                 ELSE Handled([replaced EXCEPT !.buffer = <<>>], Ok,
                              Some([buffer |-> ud.buffer,
                                    format |-> ud.format.v,
                                    path |-> old_state.path]),
                              FALSE)
        ELSE Handled(replaced, Error("Not recording"), None, FALSE)

\* Status that wants a format as Start does.
HandleStatus_NeedsFormat(ud) ==
    IF ud.format.tag = "None"
        THEN Handled(ud, Error("Format not known"), None, FALSE)
    ELSE Handled(ud, StatusResponse(Debug(ud.state)), None, FALSE)

\* AudioCommand::Status under the lock.
HandleStatus(ud) ==
    Handled(ud, StatusResponse(Debug(ud.state)), None, FALSE)

\* The match on the command.
HandleCommand(ud, cmd) ==
    IF cmd.tag = "Start" THEN HandleStart(ud, cmd.path)
    ELSE IF cmd.tag = "Stop" THEN HandleStop(ud)
    ELSE HandleStatus(ud)

\* The param_changed callback's effect on the engine state.
OnParamChanged(ud, param) ==
    IF param.kind # "format" THEN ud
    ELSE [ud EXCEPT !.format = Some(param.info)]

\* process that puts the chunk in front of the buffer.
OnProcess_Prepends(ud, d) ==
    IF ud.format.tag = "None" THEN ud
    ELSE IF ud.state.tag = "Listening" THEN ud
    ELSE IF d.kind # "chunk" THEN ud
    ELSE [ud EXCEPT !.buffer = d.samples \o @]

\* process without the checks of the state.
OnProcess_NoStateCheck(ud, d) ==
    IF ud.format.tag = "None" THEN ud
    ELSE IF d.kind # "chunk" THEN ud
    ELSE [ud EXCEPT !.buffer = @ \o d.samples]

\* The process callback's effect on the engine state.
OnProcess(ud, d) ==
    IF ud.format.tag = "None" THEN ud
    ELSE IF ud.state.tag = "Listening" THEN ud
    ELSE IF d.kind # "chunk" THEN ud
    ELSE IF ud.state.tag = "Recording"
        THEN [ud EXCEPT !.buffer = @ \o d.samples]
    ELSE ud

\* ------------------------------------------------------------------ state
VARIABLES
    user_data,   \* the UserData behind the Arc<Mutex<..>>
    lock,        \* who holds the mutex: "free", "ipc" or "poisoned"
    pc,          \* where the listener thread is in start_ipc_listener
    cur,         \* the connection the listener thread serves, 0 for none
    command,     \* the parsed command of the line being handled
    response,    \* the response of the line being handled
    save_data,   \* what the command left for the recording writer
    backlog,     \* connections the listener has not accepted yet
    conn,        \* each client's end: "new", "open" or "shut" (write half)
    sent,        \* the lines each client has written on its connection
    rd,          \* how many of them the listener thread has read
    out,         \* the response lines written to each connection
    files,       \* the recording files on disk
    dir_exists,  \* whether the recordings' parent directory exists
    delivered,   \* history: the samples the stream delivered since the
                 \* Start accepted last, None outside a recording session
    start_format, \* history: the format in effect when that Start was
                 \* accepted, None outside a recording session
    mode,                 \* the panel's Mode
    playback_sink_name,   \* the panel's Option<&str> sink
    active_recording_key, \* the panel's Option<u8>
    pending_delete,       \* the keys of the panel's pending_delete map
    panel_pc,             \* where the panel's event loop is
    panel_key,            \* the key of the event being handled
    panel_conn,           \* the connection of the command awaited, 0 for none
    devices_left,         \* devices list_devices has yet to yield
    playbacks,            \* the playback tasks the panel spawned, running
    fresh_delete,         \* history: the keys whose delete entry was made
                          \* by the press that is still under way
    last_delete,          \* what the event handled last printed about a
                          \* delete, "none" when it printed nothing
    server_process,       \* the Child the panel program started
    monitor,              \* the task that watches it
    channel,        \* the mpsc channel of the in-process command loop
    senders,        \* whether a Sender of that channel is alive
    sent_cmds,      \* history: the commands sent into it, in order
    handled,        \* history: the commands the loop has handled, in order
    play_pc,        \* where a call of audio_player's play_audio_file is
    play_args,      \* its arguments: path, sink_target, volume
    cmd_default,    \* the arguments of the Command for the default output
    cmd_mixer,      \* the arguments of the Command for the mixer
    status_default, \* what became of cmd_default.status()
    status_mixer,   \* what became of cmd_mixer.status()
    play_result,    \* what the call returned, None before it has
    pitch_pc,       \* where a call of create_pitched_copy_sync is
    pitch_args,     \* its arguments: the file at original_path, the shift
    temp_file,      \* the file at temp_file_path
    pitch_result    \* what the call returned, None before it has

vars == <<user_data, lock, pc, cur, command, response, save_data,
          backlog, conn, sent, rd, out, files, dir_exists, delivered,
          start_format,
          mode, playback_sink_name, active_recording_key, pending_delete,
          panel_pc, panel_key, panel_conn, devices_left, playbacks,
          fresh_delete, last_delete, server_process, monitor,
          channel, senders, sent_cmds, handled,
          play_pc, play_args, cmd_default, cmd_mixer, status_default,
          status_mixer, play_result,
          pitch_pc, pitch_args, temp_file, pitch_result>>

engine_vars == <<user_data, lock>>
thread_vars == <<pc, cur, command, response, save_data>>
socket_vars == <<backlog, conn, sent, rd, out>>
disk_vars == <<files, dir_exists>>
shutdown_vars == <<server_process, monitor>>
channel_vars == <<channel, senders, sent_cmds, handled>>
panel_vars == <<mode, playback_sink_name, active_recording_key,
                pending_delete, panel_pc, panel_key, panel_conn,
                devices_left, fresh_delete, last_delete, shutdown_vars>>
player_vars == <<play_pc, play_args, cmd_default, cmd_mixer, status_default,
                 status_mixer, play_result>>
pitch_vars == <<pitch_pc, pitch_args, temp_file, pitch_result>>
dispatcher_vars == <<player_vars, pitch_vars>>

\* A path with no file.
Absent == [tag |-> "Absent"]
\* A file WavWriter created: its header's spec, its samples, and whether
\* finalize completed.
WavFile(spec, data, finalized) ==
    [tag |-> "Wav", spec |-> spec, data |-> data, finalized |-> finalized]

\* main(): the engine starts Listening with no format and an empty buffer;
\* the listener thread is at listener.incoming().
EngineInit ==
    /\ user_data = UserData(None, Listening, <<>>)
    /\ lock = "free"
    /\ pc = "accept"
    /\ cur = 0
    /\ command = None
    /\ response = None
    /\ save_data = None
    /\ backlog = <<>>
    /\ delivered = None
    /\ start_format = None

\* The recordings an earlier run left for the keys in K: a finished file
\* each, in the directory that run created.
Recordings(K) ==
    /\ files = [p \in Paths |->
                  IF \E k \in K : PathOf(k + 1) = p
                     THEN WavFile(<<48000, 2>>, <<1>>, TRUE)
                     ELSE Absent]
    /\ dir_exists = (K # {})

\* Nothing is recorded yet: no file and no directory for one (a directory
\* that is there already is the state after the first create_dir_all that
\* succeeds).
ServerInit ==
    /\ EngineInit
    /\ Recordings({})

\* The connections the clients in C are going to open.
SocketInit(C) ==
    /\ conn = [c \in C |-> "new"]
    /\ sent = [c \in C |-> <<>>]
    /\ rd = [c \in C |-> 0]
    /\ out = [c \in C |-> <<>>]

\* The server run on its own, with no panel program in front of it.
NoPanel ==
    /\ mode = "Playback"
    /\ playback_sink_name = None
    /\ active_recording_key = None
    /\ pending_delete = {}
    /\ panel_pc = "none"
    /\ panel_key = 0
    /\ panel_conn = 0
    /\ devices_left = 0
    /\ playbacks = <<>>
    /\ fresh_delete = {}
    /\ last_delete = "none"
    /\ server_process = "running"
    /\ monitor = "none"

\* No in-process command loop runs.
NoChannel ==
    /\ channel = <<>>
    /\ senders = FALSE
    /\ sent_cmds = <<>>
    /\ handled = <<>>

\* No call of the playback functions is made either.
NoDispatcher ==
    /\ play_pc = "idle"
    /\ play_args = None
    /\ cmd_default = <<>>
    /\ cmd_mixer = <<>>
    /\ status_default = "none"
    /\ status_mixer = "none"
    /\ play_result = None
    /\ pitch_pc = "idle"
    /\ pitch_args = None
    /\ temp_file = Absent
    /\ pitch_result = None

Init ==
    /\ ServerInit
    /\ SocketInit(Conns)
    /\ NoPanel
    /\ NoChannel
    /\ NoDispatcher

\* ---------------------------------------------------------------- clients
\* UnixStream::connect
Connect(c) ==
    /\ conn[c] = "new"
    /\ conn' = [conn EXCEPT ![c] = "open"]
    /\ backlog' = Append(backlog, c)
    /\ UNCHANGED <<engine_vars, thread_vars, sent, rd, out, disk_vars>>
    /\ UNCHANGED <<delivered, start_format, panel_vars, channel_vars, playbacks,
                   dispatcher_vars>>

\* The lines written on all connections so far.
RECURSIVE SumLen(_, _)
SumLen(f, S) ==
    IF S = {} THEN 0
    ELSE LET c == CHOOSE x \in S : TRUE
         IN  Len(f[c]) + SumLen(f, S \ {c})
LinesSent == SumLen(sent, DOMAIN sent)

\* write_all of one line and flush
Send(c, l) ==
    /\ conn[c] = "open"
    /\ LinesSent < MaxLines
    /\ sent' = [sent EXCEPT ![c] = Append(@, l)]
    /\ UNCHANGED <<engine_vars, thread_vars, backlog, conn, rd, out, disk_vars>>
    /\ UNCHANGED <<delivered, start_format, panel_vars, channel_vars, playbacks,
                   dispatcher_vars>>

\* shutdown of the write half
Shutdown(c) ==
    /\ conn[c] = "open"
    /\ conn' = [conn EXCEPT ![c] = "shut"]
    /\ UNCHANGED <<engine_vars, thread_vars, backlog, sent, rd, out, disk_vars>>
    /\ UNCHANGED <<delivered, start_format, panel_vars, channel_vars, playbacks,
                   dispatcher_vars>>

\* send_audio_command up to its read of the response: connect, write the
\* command's line, flush, shut the write half down. The calls are numbered
\* in the order they are made.
SendAudioCommand(c, cmd) ==
    /\ conn[c] = "new"
    /\ \A b \in DOMAIN conn : b < c => conn[b] # "new"
    /\ conn' = [conn EXCEPT ![c] = "shut"]
    /\ backlog' = Append(backlog, c)
    /\ sent' = [sent EXCEPT ![c] = <<Encode(cmd)>>]
    /\ UNCHANGED <<engine_vars, thread_vars, rd, out, disk_vars>>
    /\ UNCHANGED <<delivered, start_format, panel_vars, channel_vars, playbacks,
                   dispatcher_vars>>

\* -------------------------------------------------------------- callbacks
\* param_changed: locks, stores the format, unlocks.
ParamChanged(param) ==
    /\ lock = "free"
    /\ user_data' = OnParamChanged(user_data, param)
    /\ UNCHANGED <<lock, thread_vars, socket_vars, disk_vars>>
    /\ UNCHANGED <<delivered, start_format, panel_vars, channel_vars, playbacks,
                   dispatcher_vars>>

\* process: locks, appends the chunk when recording, unlocks.
Process(d) ==
    /\ lock = "free"
    /\ Len(OnProcess(user_data, d).buffer) <= MaxBuf
    /\ user_data' = OnProcess(user_data, d)
    /\ delivered' = IF d.kind = "chunk" /\ delivered.tag = "Some"
                       THEN Some(delivered.v \o d.samples)
                       ELSE delivered
    /\ UNCHANGED <<lock, thread_vars, socket_vars, disk_vars, start_format,
                   panel_vars, channel_vars, playbacks,
                   dispatcher_vars>>

\* -------------------------------------------------- the listener thread
\* for stream in listener.incoming(): the next connection, in arrival order.
Accept ==
    /\ pc = "accept"
    /\ backlog # <<>>
    /\ cur' = Head(backlog)
    /\ backlog' = Tail(backlog)
    /\ pc' = "read_line"
    /\ UNCHANGED <<engine_vars, command, response, save_data,
                   conn, sent, rd, out, disk_vars>>
    /\ UNCHANGED <<delivered, start_format, panel_vars, channel_vars, playbacks,
                   dispatcher_vars>>

\* read_line and parse, with a line that is no command dropped unanswered.
ReadLine_DropsBadLine ==
    /\ pc = "read_line"
    /\ IF rd[cur] < Len(sent[cur])
          THEN LET parsed == Parse(sent[cur][rd[cur] + 1])
               IN  /\ rd' = [rd EXCEPT ![cur] = @ + 1]
                   /\ IF parsed.ok
                         THEN /\ command' = Some(parsed.cmd)
                              /\ pc' = "lock"
                         ELSE UNCHANGED <<command, pc>>
                   /\ out' = out
                   /\ cur' = cur
          ELSE /\ conn[cur] = "shut"
               /\ pc' = "accept"
               /\ cur' = 0
               /\ UNCHANGED <<rd, command, out>>
    /\ UNCHANGED <<engine_vars, response, save_data,
                   backlog, conn, sent, disk_vars>>
    /\ UNCHANGED <<delivered, start_format, panel_vars, channel_vars, playbacks,
                   dispatcher_vars>>

\* read_line and parse, with a line that is no command answered and the
\* connection given up (break in place of continue).
ReadLine_BadLineEndsConnection ==
    /\ pc = "read_line"
    /\ IF rd[cur] < Len(sent[cur])
          THEN LET parsed == Parse(sent[cur][rd[cur] + 1])
               IN  /\ rd' = [rd EXCEPT ![cur] = @ + 1]
                   /\ IF parsed.ok
                         THEN /\ command' = Some(parsed.cmd)
                              /\ pc' = "lock"
                              /\ out' = out
                              /\ cur' = cur
                         ELSE /\ out' = [out EXCEPT ![cur] =
                                            Append(@, Error("Parse error"))]
                              /\ command' = command
                              /\ pc' = "accept"
                              /\ cur' = 0
          ELSE /\ conn[cur] = "shut"
               /\ pc' = "accept"
               /\ cur' = 0
               /\ UNCHANGED <<rd, command, out>>
    /\ UNCHANGED <<engine_vars, response, save_data,
                   backlog, conn, sent, disk_vars>>
    /\ UNCHANGED <<delivered, start_format, panel_vars, channel_vars, playbacks,
                   dispatcher_vars>>

\* reader.read_line on the served connection, then serde_json::from_str:
\* a command goes on to the lock, a line that is none is answered at once,
\* and end of input leaves the connection for the next one.
ReadLine ==
    /\ pc = "read_line"
    /\ IF rd[cur] < Len(sent[cur])
          THEN LET parsed == Parse(sent[cur][rd[cur] + 1])
               IN  /\ rd' = [rd EXCEPT ![cur] = @ + 1]
                   /\ IF parsed.ok
                         THEN /\ command' = Some(parsed.cmd)
                              /\ pc' = "lock"
                              /\ out' = out
                         ELSE /\ out' = [out EXCEPT ![cur] =
                                            Append(@, Error("Parse error"))]
                              /\ UNCHANGED <<command, pc>>
                   /\ cur' = cur
          ELSE /\ conn[cur] = "shut"
               /\ pc' = "accept"
               /\ cur' = 0
               /\ UNCHANGED <<rd, command, out>>
    /\ UNCHANGED <<engine_vars, response, save_data,
                   backlog, conn, sent, disk_vars>>
    /\ UNCHANGED <<delivered, start_format, panel_vars, channel_vars, playbacks,
                   dispatcher_vars>>

\* The match entered without the lock.
LockEngine_NoLock ==
    /\ pc = "lock"
    /\ pc' = "match"
    /\ UNCHANGED <<engine_vars, cur, command, response, save_data,
                   socket_vars, disk_vars>>
    /\ UNCHANGED <<delivered, start_format, panel_vars, channel_vars, playbacks,
                   dispatcher_vars>>

\* data.lock().unwrap()
LockEngine ==
    /\ pc = "lock"
    /\ lock = "free"
    /\ lock' = "ipc"
    /\ pc' = "match"
    /\ UNCHANGED <<user_data, cur, command, response, save_data,
                   socket_vars, disk_vars>>
    /\ UNCHANGED <<delivered, start_format, panel_vars, channel_vars, playbacks,
                   dispatcher_vars>>

\* match command { .. } with the guard held.
Critical ==
    /\ pc = "match"
    /\ LET h == HandleCommand(user_data, command.v)
       IN  /\ user_data' = h.ud
           /\ response' = Some(h.response)
           /\ save_data' = h.save_data
           /\ IF h.panicked
                 THEN pc' = "panicked" /\ lock' = "poisoned"
                 ELSE pc' = "unlock" /\ lock' = lock
           /\ delivered' =
                 IF command.v.tag = "Start" /\ h.response = Ok
                    THEN Some(<<>>)
                 ELSE IF command.v.tag = "Stop" /\ h.response = Ok
                    THEN None
                 ELSE delivered
           /\ start_format' =
                 IF command.v.tag = "Start" /\ h.response = Ok
                    THEN user_data.format
                 ELSE IF command.v.tag = "Stop" /\ h.response = Ok
                    THEN None
                 ELSE start_format
    /\ UNCHANGED <<cur, command, socket_vars, disk_vars, panel_vars, channel_vars, playbacks,
                   dispatcher_vars>>

\* The guard kept alive across the call of the recording writer.
Unlock_GuardKept ==
    /\ pc = "unlock"
    /\ pc' = IF save_data.tag = "Some" THEN "save" ELSE "respond"
    /\ lock' = IF save_data.tag = "Some" THEN lock ELSE "free"
    /\ UNCHANGED <<user_data, cur, command, response, save_data,
                   socket_vars, disk_vars>>
    /\ UNCHANGED <<delivered, start_format, panel_vars, channel_vars, playbacks,
                   dispatcher_vars>>

\* The response written as soon as the guard is dropped, before the
\* recording writer is called.
Unlock_AnswersFirst ==
    /\ pc = "unlock"
    /\ lock' = "free"
    /\ pc' = IF save_data.tag = "Some" THEN "save" ELSE "respond"
    /\ out' = [out EXCEPT ![cur] = Append(@, response.v)]
    /\ UNCHANGED <<user_data, cur, command, response, save_data,
                   backlog, conn, sent, rd, disk_vars>>
    /\ UNCHANGED <<delivered, start_format, panel_vars, channel_vars, playbacks,
                   dispatcher_vars>>

\* The guard's scope ends; if let Some(..) = save_data decides whether the
\* recording writer is called.
Unlock ==
    /\ pc = "unlock"
    /\ lock' = "free"
    /\ pc' = IF save_data.tag = "Some" THEN "save" ELSE "respond"
    /\ UNCHANGED <<user_data, cur, command, response, save_data,
                   socket_vars, disk_vars>>
    /\ UNCHANGED <<delivered, start_format, panel_vars, channel_vars, playbacks,
                   dispatcher_vars>>

\* save_recording_from_buffer without the check for an empty buffer.
SaveRecording_NoEmptyCheck ==
    /\ pc = "save"
    /\ IF dir_exists
          THEN pc' = "create" /\ dir_exists' = dir_exists
          ELSE \E ok \in BOOLEAN :
                  /\ dir_exists' = ok
                  /\ pc' = IF ok THEN "create" ELSE "respond"
    /\ UNCHANGED <<engine_vars, cur, command, response, save_data,
                   socket_vars, files>>
    /\ UNCHANGED <<delivered, start_format, panel_vars, channel_vars, playbacks,
                   dispatcher_vars>>

\* save_recording_from_buffer, up to the directory: an empty buffer or a
\* parent directory that cannot be created end the save.
SaveRecording ==
    /\ pc = "save"
    /\ IF save_data.v.buffer = <<>>
          THEN pc' = "respond" /\ dir_exists' = dir_exists
          ELSE IF dir_exists
                  THEN pc' = "create" /\ dir_exists' = dir_exists
                  ELSE \E ok \in BOOLEAN :
                          /\ dir_exists' = ok
                          /\ pc' = IF ok THEN "create" ELSE "respond"
    /\ UNCHANGED <<engine_vars, cur, command, response, save_data,
                   socket_vars, files>>
    /\ UNCHANGED <<delivered, start_format, panel_vars, channel_vars, playbacks,
                   dispatcher_vars>>

\* WavWriter::create whose failure puts the recording back into the engine.
WavCreate_RollsBack ==
    /\ pc = "create"
    /\ \E ok \in BOOLEAN :
          IF ok
             THEN /\ files' = [files EXCEPT ![save_data.v.path] =
                                  WavFile(save_data.v.format, <<>>, FALSE)]
                  /\ pc' = "write"
                  /\ user_data' = user_data
             ELSE /\ files' = files
                  /\ pc' = "respond"
                  /\ user_data' = [user_data EXCEPT
                                      !.state = Recording(save_data.v.path),
                                      !.buffer = save_data.v.buffer]
    /\ UNCHANGED <<lock, cur, command, response, save_data,
                   socket_vars, dir_exists>>
    /\ UNCHANGED <<delivered, start_format, panel_vars, channel_vars, playbacks,
                   dispatcher_vars>>

\* WavWriter::create(filename, spec)
WavCreate ==
    /\ pc = "create"
    /\ \E ok \in BOOLEAN :
          IF ok
             THEN /\ files' = [files EXCEPT ![save_data.v.path] =
                                  WavFile(save_data.v.format, <<>>, FALSE)]
                  /\ pc' = "write"
             ELSE /\ files' = files
                  /\ pc' = "respond"
    /\ UNCHANGED <<engine_vars, cur, command, response, save_data,
                   socket_vars, dir_exists>>
    /\ UNCHANGED <<delivered, start_format, panel_vars, channel_vars, playbacks,
                   dispatcher_vars>>

\* The loop of writer.write_sample(sample): the samples in order, until
\* the end of the buffer or the first error, which breaks the loop.
WriteSamples ==
    /\ pc = "write"
    /\ \E n \in 0..Len(save_data.v.buffer) :
          files' = [files EXCEPT ![save_data.v.path].data =
                       SubSeq(save_data.v.buffer, 1, n)]
    /\ pc' = "finalize"
    /\ UNCHANGED <<engine_vars, cur, command, response, save_data,
                   socket_vars, dir_exists>>
    /\ UNCHANGED <<delivered, start_format, panel_vars, channel_vars, playbacks,
                   dispatcher_vars>>

\* writer.finalize()
Finalize ==
    /\ pc = "finalize"
    /\ \E ok \in BOOLEAN :
          files' = [files EXCEPT ![save_data.v.path].finalized = ok]
    /\ pc' = "respond"
    /\ UNCHANGED <<engine_vars, cur, command, response, save_data,
                   socket_vars, dir_exists>>
    /\ UNCHANGED <<delivered, start_format, panel_vars, channel_vars, playbacks,
                   dispatcher_vars>>

\* (&stream).write_all(response_json), then line.clear() and the next line.
Respond ==
    /\ pc = "respond"
    /\ out' = [out EXCEPT ![cur] = Append(@, response.v)]
    /\ command' = None
    /\ response' = None
    /\ save_data' = None
    /\ pc' = "read_line"
    /\ UNCHANGED <<engine_vars, cur, backlog, conn, sent, rd, disk_vars>>
    /\ UNCHANGED <<delivered, start_format, panel_vars, channel_vars, playbacks,
                   dispatcher_vars>>

\* ------------------------------------------------------------ the system
Next ==
    \/ \E c \in Conns : Connect(c)
    \/ \E c \in Conns : \E l \in LinesOf(c) : Send(c, l)
    \/ \E c \in Conns : Shutdown(c)
    \/ \E param \in Params : ParamChanged(param)
    \/ \E d \in Deliveries : Process(d)
    \/ Accept
    \/ ReadLine
    \/ LockEngine
    \/ Critical
    \/ Unlock
    \/ SaveRecording
    \/ WavCreate
    \/ WriteSamples
    \/ Finalize
    \/ Respond

Spec == Init /\ [][Next]_vars

\* The listener thread and the callbacks are scheduled: a step one of them
\* can take is taken. The clients owe nothing.
FairSpec ==
    /\ Spec
    /\ WF_vars(Accept) /\ WF_vars(ReadLine) /\ WF_vars(LockEngine)
    /\ WF_vars(Critical) /\ WF_vars(Unlock) /\ WF_vars(SaveRecording)
    /\ WF_vars(WavCreate) /\ WF_vars(WriteSamples) /\ WF_vars(Finalize)
    /\ WF_vars(Respond)

\* The server with the repository's client in front of it: every connection
\* is one call of send_audio_command.
ClientInit ==
    /\ ServerInit
    /\ SocketInit(Clients)
    /\ NoPanel
    /\ NoChannel
    /\ NoDispatcher

ClientNext ==
    \/ \E c \in Clients : \E cmd \in CommandsOf(c) : SendAudioCommand(c, cmd)
    \/ \E param \in Params : ParamChanged(param)
    \/ \E d \in Deliveries : Process(d)
    \/ Accept
    \/ ReadLine
    \/ LockEngine
    \/ Critical
    \/ Unlock
    \/ SaveRecording
    \/ WavCreate
    \/ WriteSamples
    \/ Finalize
    \/ Respond

ClientSpec == ClientInit /\ [][ClientNext]_vars

\* ------------------------------------------------------ the panel program
\* button_files: the recording file of each key.
button_files == [k \in Keys |-> PathOf(k + 1)]

\* path.exists()
Exists(p) == files[p] # Absent

\* status.contains("Listening")
ContainsListening(desc) == \E i \in 1..Len(desc) : desc[i] = "Listening"

\* What the panel program leaves alone: the server's side of everything.
server_side == <<engine_vars, thread_vars, rd, out, dir_exists, delivered,
                 start_format>>

\* The connections not made yet, and the one the next call makes.
FreeConns == {c \in DOMAIN conn : conn[c] = "new"}
NextConn == CHOOSE c \in FreeConns : \A b \in FreeConns : c <= b

\* send_audio_command of the panel program, up to its read of the response:
\* connect, write the command's line, flush, shut the write half down.
Request(c, cmd) ==
    /\ conn' = [conn EXCEPT ![c] = "shut"]
    /\ backlog' = Append(backlog, c)
    /\ sent' = [sent EXCEPT ![c] = <<Encode(cmd)>>]

\* The state a device session starts with.
SessionStart ==
    /\ mode' = "Playback"
    /\ playback_sink_name' = None
    /\ active_recording_key' = None
    /\ pending_delete' = {}
    /\ panel_pc' = "read"
    /\ panel_key' = 0
    /\ panel_conn' = 0
    /\ fresh_delete' = {}
    /\ last_delete' = "none"

\* The end of the last session: its locals go out of scope with the body
\* of the device loop, and main goes on to its last lines.
SessionEnd ==
    /\ mode' = "Playback"
    /\ playback_sink_name' = None
    /\ active_recording_key' = None
    /\ pending_delete' = {}
    /\ panel_pc' = "ended"
    /\ panel_key' = 0
    /\ panel_conn' = 0
    /\ fresh_delete' = {}
    /\ last_delete' = "none"

\* device.set_button_image(..).await.unwrap() and
\* device.flush().await.unwrap(): the write reaches the device and the loop
\* goes on to its next read, or it fails and the unwrap panics in main.
DeviceWrite == panel_pc' \in {"read", "panicked"}

\* DeviceStateUpdate::EncoderTwist(dial, _): dial 0 switches the mode and
\* flushes the device.
EncoderTwist(dial) ==
    /\ panel_pc = "read"
    /\ mode' = IF dial # 0 THEN mode
               ELSE IF mode = "Playback" THEN "Edit" ELSE "Playback"
    /\ IF dial = 0 THEN DeviceWrite ELSE panel_pc' = panel_pc
    /\ UNCHANGED <<playback_sink_name, active_recording_key, pending_delete,
                   panel_key, panel_conn, devices_left>>
    /\ last_delete' = "none"
    /\ UNCHANGED <<fresh_delete, server_side, channel_vars, shutdown_vars, dispatcher_vars, playbacks, backlog, conn,
                   sent, files>>

\* DeviceStateUpdate::EncoderDown(dial): dial 0 switches the sink.
EncoderDown(dial) ==
    /\ panel_pc = "read"
    /\ playback_sink_name' =
          IF dial # 0 THEN playback_sink_name
          ELSE IF playback_sink_name = None THEN Some("MyMixer") ELSE None
    /\ UNCHANGED <<mode, active_recording_key, pending_delete,
                   panel_pc, panel_key, panel_conn, devices_left>>
    /\ last_delete' = "none"
    /\ UNCHANGED <<fresh_delete, server_side, channel_vars, shutdown_vars, dispatcher_vars, playbacks, backlog, conn,
                   sent, files>>

\* DeviceStateUpdate::ButtonDown(key). In Playback mode only the image
\* changes. In Edit mode a key with a file is held for delete, and a key
\* without one asks the server for its Status; the call fails when the
\* connection cannot be made.
ButtonDown(key) ==
    /\ panel_pc = "read"
    /\ fresh_delete' = IF mode = "Edit" /\ Exists(button_files[key])
                          THEN fresh_delete \cup {key}
                          ELSE fresh_delete
    /\ last_delete' = "none"
    /\ IF mode = "Playback"
          THEN /\ IF Exists(button_files[key])
                     THEN DeviceWrite
                     ELSE panel_pc' = panel_pc
               /\ UNCHANGED <<pending_delete, panel_key, panel_conn,
                              backlog, conn, sent>>
       ELSE IF Exists(button_files[key])
          THEN /\ pending_delete' = pending_delete \cup {key}
               /\ DeviceWrite
               /\ UNCHANGED <<panel_key, panel_conn, backlog, conn, sent>>
       ELSE /\ Cardinality(FreeConns) >= 2
            /\ pending_delete' = pending_delete
            /\ \/ /\ Request(NextConn, Status)
                  /\ panel_pc' = "await_status"
                  /\ panel_key' = key
                  /\ panel_conn' = NextConn
               \/ UNCHANGED <<panel_pc, panel_key, panel_conn,
                              backlog, conn, sent>>
    /\ UNCHANGED <<mode, playback_sink_name, active_recording_key,
                   devices_left>>
    /\ UNCHANGED <<server_side, channel_vars, shutdown_vars, dispatcher_vars, playbacks, files>>

\* The response to the Status: on Status(..Listening..) the Start for the
\* key's file is sent; on anything else nothing is.
StatusAnswered ==
    /\ panel_pc = "await_status"
    /\ out[panel_conn] # <<>>
    /\ LET r == out[panel_conn][1]
       IN  IF r.tag = "Status" /\ ContainsListening(r.desc)
              THEN \/ /\ Request(NextConn, Start(button_files[panel_key]))
                      /\ panel_pc' = "await_start"
                      /\ panel_conn' = NextConn
                   \/ /\ panel_pc' = "read"
                      /\ panel_conn' = 0
                      /\ UNCHANGED <<backlog, conn, sent>>
              ELSE /\ panel_pc' = "read"
                   /\ panel_conn' = 0
                   /\ UNCHANGED <<backlog, conn, sent>>
    /\ UNCHANGED <<mode, playback_sink_name, active_recording_key,
                   pending_delete, panel_key, devices_left>>
    /\ last_delete' = "none"
    /\ UNCHANGED <<fresh_delete, server_side, channel_vars, shutdown_vars, dispatcher_vars, playbacks, files>>

\* The Start arm that takes every response for an Ok.
StartAnswered_AnyResponse ==
    /\ panel_pc = "await_start"
    /\ out[panel_conn] # <<>>
    /\ active_recording_key' = Some(panel_key)
    /\ DeviceWrite
    /\ panel_conn' = 0
    /\ UNCHANGED <<mode, playback_sink_name, pending_delete, panel_key,
                   devices_left>>
    /\ last_delete' = "none"
    /\ UNCHANGED <<fresh_delete, server_side, channel_vars, shutdown_vars, dispatcher_vars, playbacks, backlog, conn,
                   sent, files>>

\* The response to the Start: Ok makes the key the recording key.
StartAnswered ==
    /\ panel_pc = "await_start"
    /\ out[panel_conn] # <<>>
    /\ active_recording_key' =
          IF out[panel_conn][1] = Ok THEN Some(panel_key)
          ELSE active_recording_key
    /\ IF out[panel_conn][1] = Ok THEN DeviceWrite ELSE panel_pc' = "read"
    /\ panel_conn' = 0
    /\ UNCHANGED <<mode, playback_sink_name, pending_delete, panel_key,
                   devices_left>>
    /\ last_delete' = "none"
    /\ UNCHANGED <<fresh_delete, server_side, channel_vars, shutdown_vars, dispatcher_vars, playbacks, backlog, conn,
                   sent, files>>

\* The task that is given no sink and plays on the default output.
\* tokio::spawn(play_audio_file(&path_clone, playback_sink_name)): the task
\* owns a copy of the path and of the sink's name as they are at the spawn.
Spawned_DefaultSink(key) == [path |-> button_files[key], sink_name |-> None]
Spawned(key) == [path |-> button_files[key], sink_name |-> playback_sink_name]

\* The release that keeps the delete entry of a file it could not remove.
DeleteCommit_KeepsOnFailure(key, held, removed) ==
    [pending_delete |-> IF held /\ ~removed THEN pending_delete
                        ELSE pending_delete \ {key},
     files |-> IF held /\ removed
                  THEN [files EXCEPT ![button_files[key]] = Absent]
                  ELSE files,
     printed |-> IF ~held THEN "short"
                 ELSE IF removed THEN "deleted" ELSE "failed"]
\* The release of a key that has a delete entry: pending_delete.remove(&key)
\* takes the entry out first; held for DELETE_HOLD_DURATION or longer,
\* fs::remove_file is tried and removes the file or fails; each of the three
\* ways out prints a line of its own.
DeleteCommit(key, held, removed) ==
    [pending_delete |-> pending_delete \ {key},
     files |-> IF held /\ removed
                  THEN [files EXCEPT ![button_files[key]] = Absent]
                  ELSE files,
     printed |-> IF ~held THEN "short"
                 ELSE IF removed THEN "deleted" ELSE "failed"]

\* DeviceStateUpdate::ButtonUp(key). In Playback mode a key with a file is
\* played by a task of its own. In Edit mode the recording key sends Stop,
\* and a key held for delete is released: held long enough, its file is
\* removed, if remove_file succeeds.
ButtonUp(key) ==
    /\ panel_pc = "read"
    /\ fresh_delete' = fresh_delete \ {key}
    /\ IF mode = "Playback"
          THEN /\ IF Exists(button_files[key])
                     THEN /\ Len(playbacks) < MaxPlaybacks
                          /\ playbacks' = Append(playbacks, Spawned(key))
                          /\ DeviceWrite
                     ELSE /\ playbacks' = playbacks
                          /\ panel_pc' = panel_pc
               /\ UNCHANGED <<pending_delete, panel_key,
                              panel_conn, backlog, conn, sent, files>>
       ELSE IF active_recording_key = Some(key)
          THEN /\ Cardinality(FreeConns) >= 1
               /\ UNCHANGED <<pending_delete, files, playbacks>>
               /\ \/ /\ Request(NextConn, Stop)
                     /\ panel_pc' = "await_stop"
                     /\ panel_key' = key
                     /\ panel_conn' = NextConn
                  \/ /\ DeviceWrite
                     /\ UNCHANGED <<panel_key, panel_conn, backlog, conn,
                                    sent>>
       ELSE IF key \in pending_delete
          THEN /\ \E held, removed \in BOOLEAN :
                     LET commit == DeleteCommit(key, held, removed)
                     IN  /\ pending_delete' = commit.pending_delete
                         /\ files' = commit.files
                         /\ last_delete' = commit.printed
               /\ DeviceWrite
               /\ UNCHANGED <<panel_key, panel_conn,
                              backlog, conn, sent, playbacks>>
       ELSE UNCHANGED <<pending_delete, panel_pc, panel_key, panel_conn,
                        backlog, conn, sent, files, playbacks>>
    /\ (mode = "Edit" /\ active_recording_key # Some(key)
          /\ key \in pending_delete) \/ last_delete' = "none"
    /\ UNCHANGED <<mode, playback_sink_name, active_recording_key,
                   devices_left>>
    /\ UNCHANGED <<server_side, channel_vars, shutdown_vars, dispatcher_vars>>

\* A playback task ends: pw-play has exited, or could not be run. Either
\* way the task prints a line and is gone.
PlaybackEnds(i) ==
    /\ i \in DOMAIN playbacks
    /\ playbacks' = [j \in 1..(Len(playbacks) - 1) |->
                        IF j < i THEN playbacks[j] ELSE playbacks[j + 1]]
    /\ UNCHANGED <<mode, playback_sink_name, active_recording_key,
                   pending_delete, panel_pc, panel_key, panel_conn,
                   devices_left>>
    /\ UNCHANGED <<fresh_delete, last_delete, server_side, channel_vars, shutdown_vars, dispatcher_vars, backlog, conn, sent, files>>

\* The response to the Stop: Ok clears the recording key.
StopAnswered ==
    /\ panel_pc = "await_stop"
    /\ out[panel_conn] # <<>>
    /\ active_recording_key' =
          IF out[panel_conn][1] = Ok THEN None ELSE active_recording_key
    /\ DeviceWrite
    /\ panel_conn' = 0
    /\ UNCHANGED <<mode, playback_sink_name, pending_delete, panel_key,
                   devices_left>>
    /\ last_delete' = "none"
    /\ UNCHANGED <<fresh_delete, server_side, channel_vars, shutdown_vars, dispatcher_vars, playbacks, backlog, conn,
                   sent, files>>

\* reader.read fails: the device's loop breaks and the buttons of the
\* device are cleared, the clearing and its flush unwrapped like every other
\* write; then the next device of list_devices, if there is one, starts its
\* session.
DeviceLost ==
    /\ panel_pc = "read"
    /\ \/ /\ panel_pc' = "panicked"
          /\ UNCHANGED <<mode, playback_sink_name, active_recording_key,
                         pending_delete, panel_key, panel_conn,
                         devices_left, fresh_delete, last_delete>>
       \/ IF devices_left > 0
             THEN /\ SessionStart
                  /\ devices_left' = devices_left - 1
             ELSE /\ SessionEnd
                  /\ devices_left' = devices_left
    /\ UNCHANGED <<server_side, channel_vars, shutdown_vars, dispatcher_vars, playbacks, backlog, conn,
                   sent, files>>

\* What the last steps of main and the monitor task leave alone.
beside_shutdown == <<server_side, channel_vars, dispatcher_vars, playbacks,
                     backlog, conn, sent, files, mode, playback_sink_name,
                     active_recording_key, pending_delete, panel_key,
                     panel_conn, devices_left, fresh_delete, last_delete>>

\* shutdown_tx.send(()) at the end of main: the watch channel is marked
\* changed, or the send fails because the monitor task has ended already.
SendShutdown ==
    /\ panel_pc = "ended"
    /\ panel_pc' = "shutdown_sent"
    /\ UNCHANGED <<shutdown_vars, beside_shutdown>>

\* The monitor task is polled with the shutdown signal there: the first arm
\* of the biased select kills the server, and the task ends.
MonitorKills ==
    /\ monitor = "select"
    /\ panel_pc = "shutdown_sent"
    /\ server_process' = IF server_process = "running" THEN "killed"
                         ELSE server_process
    /\ monitor' = "done"
    /\ UNCHANGED <<panel_pc, beside_shutdown>>

\* The server process ends on its own. Followed here once the device loop
\* is over; before that a server that is gone is every call failing.
ServerExits ==
    /\ server_process = "running"
    /\ panel_pc \in {"ended", "shutdown_sent"}
    /\ server_process' = "exited"
    /\ UNCHANGED <<monitor, panel_pc, beside_shutdown>>

\* The monitor task is polled with no shutdown signal and the server gone:
\* the second arm of the select prints the status, and the task ends.
MonitorSeesExit ==
    /\ monitor = "select"
    /\ panel_pc = "ended"
    /\ server_process = "exited"
    /\ monitor' = "done"
    /\ UNCHANGED <<server_process, panel_pc, beside_shutdown>>

\* main removes the socket file and returns; the runtime shuts down with
\* it, and a task still pending at its select is dropped, its Child with
\* it: a Child that is dropped is not killed.
MainReturns ==
    /\ panel_pc = "shutdown_sent"
    /\ panel_pc' = "exited"
    /\ monitor' = IF monitor = "select" THEN "dropped" ELSE monitor
    /\ UNCHANGED <<server_process, beside_shutdown>>

\* The panel program with its server: the first device's session has
\* started, the server is up.
PanelInit ==
    /\ EngineInit
    /\ \E K \in EarlierRecordings : Recordings(K)
    /\ SocketInit(PanelConns)
    /\ mode = "Playback"
    /\ playback_sink_name = None
    /\ active_recording_key = None
    /\ pending_delete = {}
    /\ panel_pc = "read"
    /\ panel_key = 0
    /\ panel_conn = 0
    /\ devices_left = MaxDevices - 1
    /\ playbacks = <<>>
    /\ fresh_delete = {}
    /\ last_delete = "none"
    /\ server_process = "running"
    /\ monitor = "select"
    /\ NoChannel
    /\ NoDispatcher

\* The stream behind the panel program: every early return of its
\* callbacks, one format and one chunk.
PanelParams ==
    {param \in Params : param.kind = "format" => param.info = <<48000, 2>>}
PanelDeliveries ==
    {d \in Deliveries : d.kind = "chunk" => d.samples = <<1>>}

PanelNext ==
    \/ \E dial \in Dials : EncoderTwist(dial)
    \/ \E dial \in Dials : EncoderDown(dial)
    \/ \E key \in Keys : ButtonDown(key)
    \/ StatusAnswered
    \/ StartAnswered
    \/ \E key \in Keys : ButtonUp(key)
    \/ StopAnswered
    \/ \E i \in 1..MaxPlaybacks : PlaybackEnds(i)
    \/ DeviceLost
    \/ SendShutdown
    \/ MonitorKills
    \/ ServerExits
    \/ MonitorSeesExit
    \/ MainReturns
    \/ /\ server_process = "running"
       /\ \/ \E param \in PanelParams : ParamChanged(param)
          \/ \E d \in PanelDeliveries : Process(d)
          \/ Accept
          \/ ReadLine
          \/ LockEngine
          \/ Critical
          \/ Unlock
          \/ SaveRecording
          \/ WavCreate
          \/ WriteSamples
          \/ Finalize
          \/ Respond

PanelSpec == PanelInit /\ [][PanelNext]_vars

\* ------------------------------------------------- the playback functions
\* io::Result
IoOk(v) == [tag |-> "Ok", v |-> v]
IoErr == [tag |-> "Err"]

\* PlaybackSink
PlaybackSinks == {"Default", "Mixer", "Both"}
\* The volumes of the calls, in hundredths, and volume.to_string().
Volumes == {50, 100}
VolumeToString(volume) ==
    CASE volume = 50 -> "0.5"
      [] volume = 100 -> "1"
      [] OTHER -> "other"

\* The arguments of the two Commands as play_audio_file builds them: the
\* second pair of --volume arguments goes to cmd_default as well.
CmdDefault(path, volume) ==
    <<"--volume", VolumeToString(volume), path>>
        \o <<"--volume", VolumeToString(volume)>>
CmdMixer(path, volume) == <<"--target", "MyMixer", path>>

\* The Commands the sink has play_audio_file run.
RunsDefault(sink_target) == sink_target \in {"Default", "Both"}
RunsMixer(sink_target) == sink_target \in {"Mixer", "Both"}

\* play_audio_file(path, sink_target, volume) up to its await: the two
\* Commands are built, and the sink's arm asks for the status of one of them
\* or spawns a task for each.
PlayAudioFile(path, sink_target, volume) ==
    /\ play_pc = "idle"
    /\ play_args' = Some([path |-> path, sink_target |-> sink_target,
                          volume |-> volume])
    /\ cmd_default' = CmdDefault(path, volume)
    /\ cmd_mixer' = CmdMixer(path, volume)
    /\ status_default' = IF RunsDefault(sink_target) THEN "issued" ELSE "none"
    /\ status_mixer' = IF RunsMixer(sink_target) THEN "issued" ELSE "none"
    /\ play_pc' = "await"
    /\ UNCHANGED <<play_result, pitch_vars>>
    /\ UNCHANGED <<engine_vars, thread_vars, socket_vars, disk_vars,
                   delivered, start_format, panel_vars, channel_vars, playbacks>>

\* cmd.status(): the player is launched, or the launch fails.
Launch(backend) ==
    /\ \E st \in {"running", "failed"} :
          IF backend = "default"
             THEN /\ status_default = "issued"
                  /\ status_default' = st
                  /\ status_mixer' = status_mixer
             ELSE /\ status_mixer = "issued"
                  /\ status_mixer' = st
                  /\ status_default' = status_default
    /\ UNCHANGED <<play_pc, play_args, cmd_default, cmd_mixer, play_result,
                   pitch_vars>>
    /\ UNCHANGED <<engine_vars, thread_vars, socket_vars, disk_vars,
                   delivered, start_format, panel_vars, channel_vars, playbacks>>

\* The player exits, with status 0 or another.
Exit(backend) ==
    /\ \E st \in {"exit0", "exit1"} :
          IF backend = "default"
             THEN /\ status_default = "running"
                  /\ status_default' = st
                  /\ status_mixer' = status_mixer
             ELSE /\ status_mixer = "running"
                  /\ status_mixer' = st
                  /\ status_default' = status_default
    /\ UNCHANGED <<play_pc, play_args, cmd_default, cmd_mixer, play_result,
                   pitch_vars>>
    /\ UNCHANGED <<engine_vars, thread_vars, socket_vars, disk_vars,
                   delivered, start_format, panel_vars, channel_vars, playbacks>>

\* What the call waits for, and whether it is there.
Awaited ==
    (IF status_default = "none" THEN {} ELSE {status_default})
        \cup (IF status_mixer = "none" THEN {} ELSE {status_mixer})
Finished(st) == st \in {"failed", "exit0", "exit1"}

\* The return that does not wait for the other player once one has failed.
PlayReturn_OnFirstFailure ==
    /\ play_pc = "await"
    /\ \/ \A st \in Awaited : Finished(st)
       \/ \E st \in Awaited : st \in {"failed", "exit1"}
    /\ play_result' = Some(IF Awaited = {"exit0"} THEN IoOk(<<>>) ELSE IoErr)
    /\ play_pc' = "returned"
    /\ UNCHANGED <<play_args, cmd_default, cmd_mixer, status_default,
                   status_mixer, pitch_vars>>
    /\ UNCHANGED <<engine_vars, thread_vars, socket_vars, disk_vars,
                   delivered, start_format, panel_vars, channel_vars, playbacks>>

\* The await of the sink's arm is over: status().await has its result, or
\* try_join! has the results of both tasks. Ok(()) when every player that
\* was run exited with status 0, an error otherwise.
PlayReturn ==
    /\ play_pc = "await"
    /\ \A st \in Awaited : Finished(st)
    /\ play_result' = Some(IF Awaited = {"exit0"} THEN IoOk(<<>>) ELSE IoErr)
    /\ play_pc' = "returned"
    /\ UNCHANGED <<play_args, cmd_default, cmd_mixer, status_default,
                   status_mixer, pitch_vars>>
    /\ UNCHANGED <<engine_vars, thread_vars, socket_vars, disk_vars,
                   delivered, start_format, panel_vars, channel_vars, playbacks>>

\* Samples of the file to copy.
MaxSamples == 2
\* The files original_path may name: none that opens, or a WAV file with
\* its spec and samples whose last sample may fail to read.
SampleFormats == {<<"Float", 32>>, <<"Int", 16>>, <<"Int", 8>>}
Originals ==
    {Absent} \cup
    {[tag |-> "Wav", sample_rate |-> 48000, sample_format |-> f,
      data |-> [i \in 1..n |-> i], truncated |-> t] :
        f \in SampleFormats, n \in 0..MaxSamples, t \in BOOLEAN}
\* The shifts of the calls, in semitones, and the sample rate they give:
\* (sample_rate * 2^(shift / 12)).round()
Shifts == {-12, 12}
NewSampleRate(sample_rate, semitone_shift) ==
    CASE semitone_shift = 12 -> sample_rate * 2
      [] semitone_shift = -12 -> sample_rate \div 2
      [] OTHER -> sample_rate

\* The sample formats the match of the copy has an arm for.
Supported(f) ==
    f \in {<<"Int", 16>>, <<"Int", 32>>, <<"Float", 32>>, <<"Int", 24>>}

\* The samples of the original that read without an error.
Readable(o) ==
    IF o.truncated /\ o.data # <<>>
       THEN SubSeq(o.data, 1, Len(o.data) - 1)
       ELSE o.data

\* create_pitched_copy_sync(original_path, semitone_shift) is called.
CreatePitchedCopy(o, semitone_shift) ==
    /\ pitch_pc = "idle"
    /\ pitch_args' = Some([original |-> o, semitone_shift |-> semitone_shift])
    /\ pitch_pc' = "open"
    /\ UNCHANGED <<temp_file, pitch_result, player_vars>>
    /\ UNCHANGED <<engine_vars, thread_vars, socket_vars, disk_vars,
                   delivered, start_format, panel_vars, channel_vars, playbacks>>

\* WavReader::open(original_path)?
PitchOpen ==
    /\ pitch_pc = "open"
    /\ IF pitch_args.v.original = Absent
          THEN pitch_result' = Some(IoErr) /\ pitch_pc' = "returned"
          ELSE pitch_result' = pitch_result /\ pitch_pc' = "create"
    /\ UNCHANGED <<pitch_args, temp_file, player_vars>>
    /\ UNCHANGED <<engine_vars, thread_vars, socket_vars, disk_vars,
                   delivered, start_format, panel_vars, channel_vars, playbacks>>

\* The time for the file's name, then WavWriter::create(&temp_file_path,
\* out_spec)?: either may fail, and then there is no file.
PitchCreate ==
    /\ pitch_pc = "create"
    /\ \E ok \in BOOLEAN :
          IF ok
             THEN /\ temp_file' =
                        WavFile(NewSampleRate(pitch_args.v.original.sample_rate,
                                              pitch_args.v.semitone_shift),
                                <<>>, FALSE)
                  /\ pitch_result' = pitch_result
                  /\ pitch_pc' = "copy"
             ELSE /\ temp_file' = temp_file
                  /\ pitch_result' = Some(IoErr)
                  /\ pitch_pc' = "returned"
    /\ UNCHANGED <<pitch_args, player_vars>>
    /\ UNCHANGED <<engine_vars, thread_vars, socket_vars, disk_vars,
                   delivered, start_format, panel_vars, channel_vars, playbacks>>

\* The match on the format and its loop of write_sample(sample?)?: a
\* format without an arm returns the error at once; the samples are copied
\* in order up to the end or to the first read or write that fails, which
\* returns the error. The file stays as it is then.
PitchCopy ==
    /\ pitch_pc = "copy"
    /\ LET o == pitch_args.v.original
       IN  IF ~Supported(o.sample_format)
              THEN /\ temp_file' = temp_file
                   /\ pitch_result' = Some(IoErr)
                   /\ pitch_pc' = "returned"
              ELSE \E n \in 0..Len(Readable(o)) :
                      /\ temp_file' =
                            [temp_file EXCEPT !.data = SubSeq(o.data, 1, n)]
                      /\ IF n = Len(o.data)
                            THEN /\ pitch_result' = pitch_result
                                 /\ pitch_pc' = "finalize"
                            ELSE /\ pitch_result' = Some(IoErr)
                                 /\ pitch_pc' = "returned"
    /\ UNCHANGED <<pitch_args, player_vars>>
    /\ UNCHANGED <<engine_vars, thread_vars, socket_vars, disk_vars,
                   delivered, start_format, panel_vars, channel_vars, playbacks>>

\* writer.finalize()?, then Ok(temp_file_path).
PitchFinalize ==
    /\ pitch_pc = "finalize"
    /\ \E ok \in BOOLEAN :
          /\ temp_file' = [temp_file EXCEPT !.finalized = ok]
          /\ pitch_result' = Some(IF ok THEN IoOk("temp_file_path")
                                        ELSE IoErr)
    /\ pitch_pc' = "returned"
    /\ UNCHANGED <<pitch_args, player_vars>>
    /\ UNCHANGED <<engine_vars, thread_vars, socket_vars, disk_vars,
                   delivered, start_format, panel_vars, channel_vars, playbacks>>

\* The two functions called on their own: one call of each, with every
\* argument and every outcome of the players and of the file system.
DispatcherNext ==
    \/ \E path \in Paths : \E sink_target \in PlaybackSinks :
          \E volume \in Volumes : PlayAudioFile(path, sink_target, volume)
    \/ \E backend \in {"default", "mixer"} : Launch(backend)
    \/ \E backend \in {"default", "mixer"} : Exit(backend)
    \/ PlayReturn
    \/ \E o \in Originals : \E semitone_shift \in Shifts :
          CreatePitchedCopy(o, semitone_shift)
    \/ PitchOpen
    \/ PitchCreate
    \/ PitchCopy
    \/ PitchFinalize

DispatcherSpec == Init /\ [][DispatcherNext]_vars

\* ------------------------------------------- the in-process command loop
\* Commands sent into the channel while the capture loop runs.
MaxSends == 3
\* The commands handle_audio_commands has an arm for.
ChannelCommands == {Start(p) : p \in Paths} \cup {Stop}

\* What one command leaves under the lock: the engine state, the recording
\* for the writer, and whether the unwrap of the format panicked.
Done(ud, save, panicked) ==
    [ud |-> ud, save_data |-> save, panicked |-> panicked]

\* Start that clears the buffer of a recording already under way.
ChannelStart_ClearsAlways(ud, path) ==
    IF ud.format.tag = "None" THEN Done(ud, None, FALSE)
    ELSE IF ud.state.tag = "Listening"
        THEN Done([ud EXCEPT !.state = Recording(path), !.buffer = <<>>],
                  None, FALSE)
    ELSE Done([ud EXCEPT !.buffer = <<>>], None, FALSE)
\* AudioCommand::Start(path) in handle_audio_commands.
ChannelStart(ud, path) ==
    IF ud.format.tag = "None" THEN Done(ud, None, FALSE)
    ELSE IF ud.state.tag = "Listening"
        THEN Done([ud EXCEPT !.state = Recording(path), !.buffer = <<>>],
                  None, FALSE)
    ELSE Done(ud, None, FALSE)

\* AudioCommand::Stop in handle_audio_commands.
ChannelStop(ud) ==
    LET old_state == ud.state
        replaced == [ud EXCEPT !.state = Listening]
    IN  IF old_state.tag = "Recording"
            THEN LET taken == [replaced EXCEPT !.buffer = <<>>]
                 IN  IF ud.format.tag = "None"
                        THEN Done(taken, None, TRUE)
                     ELSE Done(taken,
                               Some([buffer |-> ud.buffer,
                                     format |-> ud.format.v,
                                     path |-> old_state.path]),
                               FALSE)
        ELSE Done(replaced, None, FALSE)

\* match command { .. } of handle_audio_commands.
ChannelCommand(ud, cmd) ==
    IF cmd.tag = "Start" THEN ChannelStart(ud, cmd.path)
    ELSE ChannelStop(ud)

\* Sender::send: the command is queued; it never blocks.
ChannelSend(cmd) ==
    /\ senders
    /\ Len(sent_cmds) < MaxSends
    /\ channel' = Append(channel, cmd)
    /\ sent_cmds' = Append(sent_cmds, cmd)
    /\ UNCHANGED <<senders, handled>>
    /\ UNCHANGED <<engine_vars, thread_vars, socket_vars, disk_vars,
                   delivered, start_format, panel_vars, playbacks,
                   dispatcher_vars>>

\* The last Sender is dropped.
DropSender ==
    /\ senders
    /\ senders' = FALSE
    /\ UNCHANGED <<channel, sent_cmds, handled>>
    /\ UNCHANGED <<engine_vars, thread_vars, socket_vars, disk_vars,
                   delivered, start_format, panel_vars, playbacks,
                   dispatcher_vars>>

\* The loop that takes the command sent last.
ChannelRecv_TakesLast ==
    /\ pc = "recv"
    /\ channel # <<>>
    /\ command' = Some(channel[Len(channel)])
    /\ channel' = SubSeq(channel, 1, Len(channel) - 1)
    /\ save_data' = None
    /\ pc' = "lock"
    /\ UNCHANGED <<senders, sent_cmds, handled>>
    /\ UNCHANGED <<engine_vars, cur, response, socket_vars, disk_vars,
                   delivered, start_format, panel_vars, playbacks,
                   dispatcher_vars>>

\* for command in rx: the next command of the channel, oldest first;
\* save_data starts as None.
ChannelRecv ==
    /\ pc = "recv"
    /\ channel # <<>>
    /\ command' = Some(Head(channel))
    /\ channel' = Tail(channel)
    /\ save_data' = None
    /\ pc' = "lock"
    /\ UNCHANGED <<senders, sent_cmds, handled>>
    /\ UNCHANGED <<engine_vars, cur, response, socket_vars, disk_vars,
                   delivered, start_format, panel_vars, playbacks,
                   dispatcher_vars>>

\* The channel is empty and no Sender is left: the for loop ends and the
\* function prints its last line.
ChannelClosed ==
    /\ pc = "recv"
    /\ channel = <<>>
    /\ ~senders
    /\ pc' = "exited"
    /\ UNCHANGED channel_vars
    /\ UNCHANGED <<engine_vars, cur, command, response, save_data,
                   socket_vars, disk_vars, delivered, start_format,
                   panel_vars, playbacks, dispatcher_vars>>

\* match command { .. } with the guard held; no response is made.
ChannelCritical ==
    /\ pc = "match"
    /\ LET h == ChannelCommand(user_data, command.v)
       IN  /\ user_data' = h.ud
           /\ save_data' = h.save_data
           /\ IF h.panicked
                 THEN pc' = "panicked" /\ lock' = "poisoned"
                 ELSE pc' = "unlock" /\ lock' = lock
    /\ handled' = Append(handled, command.v)
    /\ UNCHANGED <<channel, senders, sent_cmds>>
    /\ UNCHANGED <<cur, command, response, socket_vars, disk_vars,
                   delivered, start_format, panel_vars, playbacks,
                   dispatcher_vars>>

\* The end of one turn of the loop, after the writer if it was called: the
\* command is dropped and the loop is back at the channel.
ChannelLoop ==
    /\ pc = "respond"
    /\ command' = None
    /\ save_data' = None
    /\ pc' = "recv"
    /\ UNCHANGED channel_vars
    /\ UNCHANGED <<engine_vars, cur, response, socket_vars, disk_vars,
                   delivered, start_format, panel_vars, playbacks,
                   dispatcher_vars>>

\* run_capture_loop: the engine starts Listening with no format and an
\* empty buffer, the command loop's thread waits on the channel, and the
\* caller holds the Sender.
ChannelInit ==
    /\ user_data = UserData(None, Listening, <<>>)
    /\ lock = "free"
    /\ pc = "recv"
    /\ cur = 0
    /\ command = None
    /\ response = None
    /\ save_data = None
    /\ backlog = <<>>
    /\ delivered = None
    /\ start_format = None
    /\ Recordings({})
    /\ SocketInit({})
    /\ NoPanel
    /\ NoDispatcher
    /\ channel = <<>>
    /\ senders = TRUE
    /\ sent_cmds = <<>>
    /\ handled = <<>>

ChannelNext ==
    \/ \E cmd \in ChannelCommands : ChannelSend(cmd)
    \/ DropSender
    \/ \E param \in PanelParams : ParamChanged(param)
    \/ \E d \in PanelDeliveries : Process(d)
    \/ ChannelRecv
    \/ ChannelClosed
    \/ LockEngine
    \/ ChannelCritical
    \/ Unlock
    \/ SaveRecording
    \/ WavCreate
    \/ WriteSamples
    \/ Finalize
    \/ ChannelLoop

ChannelSpec == ChannelInit /\ [][ChannelNext]_vars

\* The thread of the command loop is scheduled: a step it can take is
\* taken. The callbacks and the senders owe nothing.
ChannelFairSpec ==
    /\ ChannelSpec
    /\ WF_vars(ChannelRecv) /\ WF_vars(ChannelClosed) /\ WF_vars(LockEngine)
    /\ WF_vars(ChannelCritical) /\ WF_vars(Unlock) /\ WF_vars(SaveRecording)
    /\ WF_vars(WavCreate) /\ WF_vars(WriteSamples) /\ WF_vars(Finalize)
    /\ WF_vars(ChannelLoop)

\* -------------------------------------------------------------- helpers
Range(f) == {f[i] : i \in DOMAIN f}
Samples == UNION {Range(c) : c \in Chunks}
Buffers == UNION {[1..n -> Samples] : n \in 0..MaxBuf}
\* Every value of UserData, reachable or not.
EngineStates ==
    {UserData(f, s, b) :
        f \in {None} \cup {Some(x) : x \in Formats},
        s \in {Listening} \cup {Recording(p) : p \in Paths},
        b \in Buffers}

\* The step in which the listener thread handles its command under the lock.
Handles(tag) ==
    /\ pc = "match"
    /\ pc' # "match"
    /\ command.v.tag = tag
\* The listener thread has handled a command of this kind and still holds
\* the lock.
Handling(tag) ==
    /\ pc = "unlock"
    /\ command.v.tag = tag
InWriter == pc \in {"save", "create", "write", "finalize"}

\* ---------------------------------------------------------------- claims
\* The handler's answer to a Start on every value of the engine state.
StartAnswerOnEveryState ==
    \A ud \in EngineStates : \A p \in Paths :
        LET h == HandleCommand(ud, Start(p))
        IN  /\ (h.response.tag = "Ok") <=>
                  (ud.state.tag = "Listening" /\ ud.format.tag = "Some")
            /\ ud.format.tag = "None" =>
                  (h.response = Error("Format not known") /\ h.ud = ud)

\* C1: a Start is answered Ok exactly when the state is Listening and the
\* format is known; with no format it is answered Error("Format not known")
\* and the engine state is left as it was. Every step in which the listener
\* thread handles a Start does so, and so does the handler on every value
\* of the engine state.
C1_StartAnswered ==
    [][Handles("Start") =>
          /\ (response'.v.tag = "Ok") <=>
                (/\ user_data.state.tag = "Listening"
                 /\ user_data.format.tag = "Some")
          /\ user_data.format.tag = "None" =>
                /\ response'.v = Error("Format not known")
                /\ user_data' = user_data
          /\ StartAnswerOnEveryState]_vars

\* A Start has just been accepted on a socket that refused one before for
\* the lack of a format.
C1_Witness ==
    /\ Handling("Start")
    /\ response.v.tag = "Ok"
    /\ \E c \in Conns : Error("Format not known") \in Range(out[c])

\* C2: a Start handled while the state is Recording(path1) is answered
\* Error("Already recording") and leaves the state, the format and the
\* buffer as they were.
C2_StartWhileRecording ==
    [][(Handles("Start") /\ user_data.state.tag = "Recording") =>
          /\ response'.v = Error("Already recording")
          /\ user_data' = user_data
          /\ save_data' = None]_vars

\* A Start for another path was refused while samples were in the buffer.
C2_Witness ==
    /\ Handling("Start")
    /\ response.v = Error("Already recording")
    /\ user_data.state.tag = "Recording"
    /\ user_data.state.path # command.v.path
    /\ user_data.buffer # <<>>

\* The handler's effect of an accepted Start on every value of the engine
\* state.
StartEmptiesOnEveryState ==
    \A ud \in EngineStates : \A p \in Paths :
        LET h == HandleCommand(ud, Start(p))
        IN  h.response.tag = "Ok" =>
               (h.ud.state = Recording(p) /\ h.ud.buffer = <<>>)

\* C3: when an accepted Start has been handled and the lock is about to be
\* released, the lock has been the listener thread's since before the match,
\* the state is Recording(path) and the buffer is empty; the handler empties
\* the buffer whatever it held.
C3_StartAtomic ==
    /\ pc \in {"match", "unlock"} => lock = "ipc"
    /\ (Handling("Start") /\ response.v.tag = "Ok") =>
          /\ user_data.state = Recording(command.v.path)
          /\ user_data.buffer = <<>>
          /\ StartEmptiesOnEveryState

\* An accepted Start has been handled and the lock is not released yet.
C3_Witness ==
    /\ Handling("Start")
    /\ response.v.tag = "Ok"
    /\ lock = "ipc"
    /\ user_data.state = Recording(command.v.path)

\* C4: a Stop handled while the state is Listening is answered
\* Error("Not recording"), leaves the engine state as it was and hands
\* nothing to the recording writer: the thread goes on to the response
\* without a call of the writer and no file changes.
C4_StopWhileListening ==
    /\ [][(Handles("Stop") /\ user_data.state.tag = "Listening") =>
             /\ response'.v = Error("Not recording")
             /\ user_data' = user_data
             /\ save_data' = None]_vars
    /\ [][(Handling("Stop") /\ response.v.tag = "Error") =>
             /\ pc' \in {"unlock", "respond"}
             /\ files' = files]_vars

\* A refused Stop is about to be answered.
C4_Witness ==
    /\ pc = "respond"
    /\ command.v.tag = "Stop"
    /\ response.v = Error("Not recording")
    /\ user_data.state.tag = "Listening"

\* C5: a Stop handled while the state is Recording(p) leaves the buffer
\* empty and the state Listening, is answered Ok, and leaves for the writer
\* the buffer as it was, the format and p; the writer is then called with
\* them.
C5_StopWhileRecording ==
    /\ [][(Handles("Stop") /\ user_data.state.tag = "Recording") =>
             /\ user_data'.buffer = <<>>
             /\ user_data'.state = Listening
             /\ user_data'.format = user_data.format
             /\ response'.v = Ok
             /\ save_data' = Some([buffer |-> user_data.buffer,
                                   format |-> user_data.format.v,
                                   path |-> user_data.state.path])]_vars
    /\ [][(Handling("Stop") /\ response.v.tag = "Ok") =>
             /\ pc' \in {"unlock", "save"}
             /\ save_data' = save_data]_vars
    /\ [](InWriter => save_data.tag = "Some")

\* The writer has been called with a buffer of two samples, and the engine
\* is Listening with an empty buffer.
C5_Witness ==
    /\ pc = "save"
    /\ Len(save_data.v.buffer) = 2
    /\ user_data.state = Listening
    /\ user_data.buffer = <<>>

\* C6: there is at most one recording. While the state is Recording(p) it
\* changes only to Listening, and only in the step that handles a Stop and
\* answers it Ok; a Start is answered Ok only in a step from Listening to
\* Recording(its path), so none is accepted before that Stop.
C6_OneRecording ==
    /\ [][(user_data.state.tag = "Recording"
            /\ user_data'.state # user_data.state) =>
             /\ Handles("Stop")
             /\ user_data'.state = Listening
             /\ response'.v = Ok]_vars
    /\ [][(Handles("Start") /\ response'.v.tag = "Ok") =>
             /\ user_data.state = Listening
             /\ user_data'.state = Recording(command.v.path)]_vars
    /\ [][(user_data.state.tag = "Listening"
            /\ user_data'.state # user_data.state) =>
             /\ Handles("Start")
             /\ response'.v = Ok]_vars

\* A recording is on, and a Start for another path has been refused since
\* it began.
C6_Witness ==
    /\ user_data.state.tag = "Recording"
    /\ \E c \in Conns :
          /\ Error("Already recording") \in Range(out[c])
          /\ \E i \in 1..Len(sent[c]) :
                /\ Parse(sent[c][i]).ok
                /\ Parse(sent[c][i]).cmd.tag = "Start"
                /\ Parse(sent[c][i]).cmd.path # user_data.state.path

\* C7: when the only lines written to the socket are one Start on each of
\* two connections, both are answered and neither for the lack of a format,
\* then one answer is Ok and the other Error("Already recording").
C7_ConcurrentStarts ==
    \A c1 \in Conns : \A c2 \in Conns \ {c1} :
        (/\ Len(sent[c1]) = 1 /\ Parse(sent[c1][1]).ok
         /\ Parse(sent[c1][1]).cmd.tag = "Start"
         /\ Len(sent[c2]) = 1 /\ Parse(sent[c2][1]).ok
         /\ Parse(sent[c2][1]).cmd.tag = "Start"
         /\ \A c \in Conns \ {c1, c2} : sent[c] = <<>>
         /\ Len(out[c1]) = 1 /\ Len(out[c2]) = 1
         /\ Error("Format not known") \notin {out[c1][1], out[c2][1]})
        => {out[c1][1], out[c2][1]} = {Ok, Error("Already recording")}

\* Each connection wrote one Start; the one accepted first was answered Ok
\* and records, the other was refused.
C7_Witness ==
    /\ out[2] = <<Ok>>
    /\ out[1] = <<Error("Already recording")>>
    /\ sent[1] = <<Encode(Start("/rec/a.wav"))>>
    /\ sent[2] = <<Encode(Start("/rec/b.wav"))>>
    /\ user_data.state = Recording("/rec/b.wav")

\* C8: every line a client writes on its connection is answered in the
\* end, while other connections are open.
C8_EveryCommandAnswered ==
    \A c \in Conns : \A k \in 1..MaxLines :
        (Len(sent[c]) >= k) ~> (Len(out[c]) >= k)

\* C9: while the recording writer runs, the listener thread does not hold
\* the lock: it is free for the callbacks.
C9_NoLockDuringWrite ==
    InWriter => lock = "free"

\* The format was renegotiated by the callback while the writer was writing
\* the samples of a recording made with another format.
C9_Witness ==
    /\ pc = "write"
    /\ lock = "free"
    /\ user_data.format # Some(save_data.v.format)

\* C10: the process callback appends a chunk when the state is Recording
\* and only then; when the state is Listening, or no format is known, the
\* engine state is left as it was.
C10_AppendIffRecording ==
    [][(pc' = pc /\ lock = "free" /\ start_format' = start_format) =>
          \A c \in Chunks :
              Process([kind |-> "chunk", samples |-> c]) =>
                 IF user_data.state.tag = "Recording"
                       /\ user_data.format.tag = "Some"
                    THEN user_data' = [user_data EXCEPT !.buffer = @ \o c]
                    ELSE user_data' = user_data]_vars

\* Two chunks were appended in the order of their delivery.
C10_Witness ==
    /\ user_data.state.tag = "Recording"
    /\ user_data.buffer = <<2, 1>>

\* A recording session run on every value of the engine state that accepts
\* a Start, whatever its buffer held: Start, two chunks, Stop.
SessionBufferOnEveryState ==
    \A ud \in EngineStates : \A p \in Paths : \A c1, c2 \in Chunks :
        (ud.state.tag = "Listening" /\ ud.format.tag = "Some") =>
            LET started == HandleCommand(ud, Start(p)).ud
                first == OnProcess(started, [kind |-> "chunk", samples |-> c1])
                second == OnProcess(first, [kind |-> "chunk", samples |-> c2])
                h == HandleCommand(second, Stop)
            IN  /\ h.response = Ok
                /\ h.save_data.v.buffer = c1 \o c2
                /\ Len(h.save_data.v.buffer) = Len(c1) + Len(c2)

\* C11: the buffer an accepted Stop leaves for the recording writer is the
\* concatenation, in the order of delivery, of the chunks delivered since
\* the matching Start was accepted, and of nothing else; while a recording
\* is on, the buffer is what was delivered so far.
C11_BufferIsSession ==
    /\ [](user_data.state.tag = "Recording" =>
            /\ delivered.tag = "Some"
            /\ user_data.buffer = delivered.v)
    /\ [][(Handles("Stop") /\ response'.v = Ok) =>
             /\ delivered.tag = "Some"
             /\ save_data'.v.buffer = delivered.v
             /\ SessionBufferOnEveryState]_vars

\* An accepted Stop has taken the two chunks delivered since the Start, the
\* first delivered first.
C11_Witness ==
    /\ Handling("Stop")
    /\ response.v = Ok
    /\ save_data.v.buffer = <<1, 2>>

\* The listener thread takes a step of its own.
ThreadSteps == pc' # pc

\* C12: an accepted Stop with no sample delivered since the accepted Start
\* leaves an empty buffer for the writer; the writer given an empty buffer
\* returns at once, touching no file and no directory; the Stop is answered
\* Ok and the state is Listening.
C12_EmptyRecording ==
    /\ [][(Handles("Stop") /\ response'.v = Ok /\ delivered = Some(<<>>)) =>
             /\ save_data' # None
             /\ save_data'.v.buffer = <<>>
             /\ user_data'.state = Listening]_vars
    /\ [][(pc = "save" /\ save_data.v.buffer = <<>>) =>
             /\ pc' \in {"save", "respond"}
             /\ files' = files
             /\ dir_exists' = dir_exists]_vars
    /\ [][(pc = "respond" /\ ThreadSteps /\ command.v = Stop
            /\ save_data # None /\ save_data.v.buffer = <<>>) =>
             /\ user_data.state = Listening
             /\ out'[cur] = Append(out[cur], Ok)]_vars

\* A Stop right after its Start is about to be answered Ok; the writer has
\* returned, and there is neither a file nor a directory.
C12_Witness ==
    /\ pc = "respond"
    /\ command.v = Stop
    /\ response.v = Ok
    /\ save_data # None
    /\ save_data.v.buffer = <<>>
    /\ user_data.state = Listening
    /\ \A p \in Paths : files[p] = Absent
    /\ ~dir_exists

\* The call c of send_audio_command sent this command and read this response.
Answered(c, cmd, resp) ==
    /\ sent[c] = <<Encode(cmd)>>
    /\ out[c] = <<resp>>

\* C13: a file is only ever at a path that a Start answered Ok has named.
C13_OnlyAcceptedPaths ==
    \A p \in Paths :
        files[p] # Absent => \E c \in DOMAIN sent : Answered(c, Start(p), Ok)

\* The recording went to the path of the accepted Start; the path of the
\* Start refused during it has no file.
C13_Witness ==
    /\ files["/rec/a.wav"] # Absent
    /\ files["/rec/b.wav"] = Absent
    /\ Answered(1, Start("/rec/a.wav"), Ok)
    /\ Answered(2, Start("/rec/b.wav"), Error("Already recording"))
    /\ Answered(3, Stop, Ok)

\* A step of the recording writer that fails: the directory or the file is
\* not created, a sample is not written, or finalize fails.
WriterFails ==
    \/ pc = "save" /\ pc' = "respond" /\ save_data.v.buffer # <<>>
    \/ pc = "create" /\ pc' = "respond"
    \/ /\ pc = "write" /\ pc' = "finalize"
       /\ files'[save_data.v.path].data # save_data.v.buffer
    \/ /\ pc = "finalize" /\ pc' = "respond"
       /\ ~files'[save_data.v.path].finalized

\* C14: a failing step of the writer changes neither the engine nor the
\* response; from the accepted Stop to its answer the state is Listening and
\* the buffer empty, and the answer is Ok; a Start that comes next after a
\* Stop answered Ok is answered Ok.
C14_NoRollback ==
    /\ [][WriterFails =>
             /\ user_data' = user_data
             /\ lock' = lock
             /\ response' = response
             /\ response.v = Ok]_vars
    /\ []((pc \in {"save", "create", "write", "finalize", "respond"}
            /\ command.v = Stop /\ response.v = Ok) =>
             /\ user_data.state = Listening
             /\ user_data.buffer = <<>>)
    /\ [](\A c \in DOMAIN sent : \A p \in Paths :
            (/\ c + 1 \in DOMAIN sent
             /\ Answered(c, Stop, Ok)
             /\ sent[c + 1] = <<Encode(Start(p))>>
             /\ out[c + 1] # <<>>) => out[c + 1] = <<Ok>>)

\* The directory was made but the file could not be created; the Stop was
\* answered Ok all the same, and so was the Start after it.
C14_Witness ==
    /\ dir_exists
    /\ \A p \in Paths : files[p] = Absent
    /\ Answered(1, Start("/rec/a.wav"), Ok)
    /\ Answered(2, Stop, Ok)
    /\ Answered(3, Start("/rec/b.wav"), Ok)

\* The listener thread has read a command and not written its response.
Serving(c) ==
    /\ cur = c
    /\ pc \in {"lock", "match", "unlock", "save", "create", "write",
               "finalize", "respond"}

\* A response that this line can get.
Answers(l, r) ==
    LET parsed == Parse(l)
    IN  IF ~parsed.ok THEN r = Error("Parse error")
        ELSE IF parsed.cmd.tag = "Status" THEN r.tag = "Status"
        ELSE IF parsed.cmd.tag = "Start"
            THEN r \in {Ok, Error("Format not known"),
                        Error("Already recording")}
        ELSE r \in {Ok, Error("Not recording")}

ReadsBadLine ==
    /\ pc = "read_line"
    /\ rd[cur] < Len(sent[cur])
    /\ rd'[cur] = rd[cur] + 1
    /\ ~Parse(sent[cur][rd[cur] + 1]).ok

StatusOnEveryState ==
    /\ \A ud \in EngineStates :
          LET h == HandleCommand(ud, Status)
          IN  /\ h.response = StatusResponse(Debug(ud.state))
              /\ h.ud = ud
              /\ h.save_data = None
              /\ ~h.panicked
    /\ \A s1, s2 \in {Listening} \cup {Recording(p) : p \in Paths} :
          Debug(s1) = Debug(s2) => s1 = s2

\* C17: a Status is answered with Status(description of the state), never
\* with an Error, and leaves the state, the format and the buffer as they
\* were: in every step that handles one and on every value of the engine.
C17_StatusNeverFails ==
    [][Handles("Status") =>
          /\ response'.v = StatusResponse(Debug(user_data.state))
          /\ user_data' = user_data
          /\ save_data' = None
          /\ pc' = "unlock"
          /\ StatusOnEveryState]_vars

\* A Status was handled before any format was negotiated.
C17_Witness ==
    /\ Handling("Status")
    /\ user_data.format = None
    /\ response.v = StatusResponse(<<"Listening">>)

\* C18: the format an accepted Stop leaves for the recording writer is the
\* format that was in effect when the matching Start was accepted, whatever
\* was negotiated while the recording was on.
C18_FormatOfStart ==
    [][(Handles("Stop") /\ response'.v = Ok) =>
          /\ save_data' # None
          /\ Some(save_data'.v.format) = start_format]_vars

\* The panel's recording key and the engine's state say the same.
Agree ==
    IF active_recording_key = None
       THEN user_data.state = Listening
       ELSE user_data.state = Recording(button_files[active_recording_key.v])

\* A step of a device session that ends the handling of a panel event: the
\* event loop is back at its read with the panel state changed.
EventHandled ==
    /\ panel_pc' = "read"
    /\ devices_left' = devices_left
    /\ <<mode, playback_sink_name, active_recording_key, pending_delete,
         panel_pc>>' #
       <<mode, playback_sink_name, active_recording_key, pending_delete,
         panel_pc>>

\* C19: when the handling of a panel event ends, the panel's recording key
\* is Some(k) exactly when the engine is Recording(file of k), and None
\* exactly when the engine is Listening.
C19_PanelAgreesWithEngine ==
    [][EventHandled => Agree']_vars

\* C20: within a device session the panel's recording key changes only
\* in the step that reads an Ok: to Some(key) on the Ok to the Start sent
\* for that key, to None on the Ok to a Stop. A call that fails, an Error
\* and any other response leave it as it was.
C20_KeyChangesOnlyOnOk ==
    [][(active_recording_key' # active_recording_key
          /\ devices_left' = devices_left /\ panel_pc' # "ended") =>
          \/ /\ panel_pc = "await_start"
             /\ Answered(panel_conn, Start(button_files[panel_key]), Ok)
             /\ active_recording_key' = Some(panel_key)
          \/ /\ panel_pc = "await_stop"
             /\ Answered(panel_conn, Stop, Ok)
             /\ active_recording_key' = None]_vars

\* The Ok to the Start for key 1 made it the recording key, and the Ok to
\* the Stop has cleared it again.
C20_Witness ==
    /\ active_recording_key = None
    /\ panel_pc = "read"
    /\ panel_key = 1
    /\ \E c \in DOMAIN sent : Answered(c, Start(button_files[1]), Ok)
    /\ \E c \in DOMAIN sent : Answered(c, Stop, Ok)

\* The panel program can make a call of send_audio_command.
CanCall == panel_pc = "read" /\ Cardinality(FreeConns) >= 2

\* The command is written on a connection that had carried nothing.
Issues(cmd) ==
    \E c \in DOMAIN sent : sent[c] = <<>> /\ sent'[c] = <<Encode(cmd)>>

\* C21: in Playback mode, a ButtonDown on a key whose file does not exist
\* issues Start with the key's path (and the Ok that answers it makes the key
\* the recording key). The handler may ask for the Status first, as the one
\* of the sources does before every Start.
C21_PlaybackPressStarts ==
    \A key \in Keys :
        (CanCall /\ mode = "Playback" /\ ~Exists(button_files[key])) =>
            ENABLED (/\ ButtonDown(key)
                     /\ \/ Issues(Start(button_files[key]))
                        \/ Issues(Status))

\* C22: in Playback mode, a ButtonUp on the recording key issues Stop (and
\* the Ok that answers it clears the recording key), so that the release of
\* the key ends the recording its press started.
C22_PlaybackReleaseStops ==
    \A key \in Keys :
        (/\ panel_pc = "read"
         /\ FreeConns # {}
         /\ mode = "Playback"
         /\ active_recording_key = Some(key)) =>
            ENABLED (ButtonUp(key) /\ Issues(Stop))

\* The panel's own state, and what its handlers can change outside it: the
\* lines sent to the Capture Engine and the recording files.
panel_state == <<mode, playback_sink_name, active_recording_key,
                 pending_delete>>

\* C23: in Edit mode a ButtonUp does nothing, whatever the key: no command
\* is sent, no file is deleted and the panel state stays as it was.
C23_EditReleaseIsNoOp ==
    [][\A key \in Keys :
          (mode = "Edit" /\ ButtonUp(key)) =>
              UNCHANGED <<panel_state, sent, files>>]_vars

\* C24: a key active for recording and a key held for delete are never set
\* together.
C24_RecordingExcludesDelete ==
    ~(active_recording_key # None /\ pending_delete # {})

\* C25: when EncoderTwist on dial 0 switches the mode from Edit to Playback,
\* no key is left held for delete.
C25_LeavingEditClearsDelete ==
    [][(mode = "Edit" /\ mode' = "Playback") => pending_delete' = {}]_vars

\* The PlaybackSink a sink name stands for: no name is the default output,
\* a name is the mixer of that name.
SinkOf(sink_name) == IF sink_name = None THEN "Default" ELSE "Mixer"

\* The cycle of the sinks: Default, Mixer, Both, and Default again.
NextInCycle(sink) ==
    CASE sink = "Default" -> "Mixer"
      [] sink = "Mixer" -> "Both"
      [] sink = "Both" -> "Default"

\* C26: an EncoderDown on dial 0 moves the sink one step along the cycle
\* Default, Mixer, Both, Default, and an EncoderDown on another dial leaves
\* the sink as it was.
C26_SinkCycle ==
    [][\A dial \in Dials :
          EncoderDown(dial) =>
              SinkOf(playback_sink_name') =
                 IF dial = 0 THEN NextInCycle(SinkOf(playback_sink_name))
                             ELSE SinkOf(playback_sink_name)]_vars

\* C27: in Playback mode, a ButtonUp on a key that is not the recording key
\* and has a file adds one playback task, for the key's file and the sink
\* selected at that moment, and goes on to the write of the key's image
\* without waiting for the task; no later event changes a task that is
\* running.
C27_PlaybackDispatched ==
    [][/\ \A key \in Keys :
            (/\ mode = "Playback"
             /\ Exists(button_files[key])
             /\ active_recording_key # Some(key)
             /\ ButtonUp(key)) =>
                /\ playbacks' =
                      Append(playbacks, [path |-> button_files[key],
                                         sink_name |-> playback_sink_name])
                /\ DeviceWrite
       /\ (playbacks # <<>> /\ panel_state' # panel_state) =>
             playbacks' = playbacks]_vars

\* A playback sent to the mixer is running, and the events that came after
\* its dispatch have set the sink back to the default and the mode to Edit.
C27_Witness ==
    /\ playbacks # <<>>
    /\ playbacks[1].sink_name = Some("MyMixer")
    /\ playback_sink_name = None
    /\ mode = "Edit"
    /\ panel_pc = "read"

\* C28: with the sink Both, both players are issued together, the call
\* returns only when both have finished, it returns Ok exactly when both
\* were launched and exited with status 0, and a player that failed leaves
\* the other one free to be launched and to run to its end.
C28_BothSinks ==
    (play_pc # "idle" /\ play_args.v.sink_target = "Both") =>
        /\ status_default # "none" /\ status_mixer # "none"
        /\ play_pc = "returned" =>
              /\ Finished(status_default) /\ Finished(status_mixer)
              /\ play_result = Some(IoOk(<<>>)) <=>
                    (status_default = "exit0" /\ status_mixer = "exit0")
        /\ (status_default \in {"failed", "exit1"}
                /\ status_mixer = "issued") => ENABLED Launch("mixer")
        /\ (status_default \in {"failed", "exit1"}
                /\ status_mixer = "running") => ENABLED Exit("mixer")
        /\ (status_mixer \in {"failed", "exit1"}
                /\ status_default = "issued") => ENABLED Launch("default")
        /\ (status_mixer \in {"failed", "exit1"}
                /\ status_default = "running") => ENABLED Exit("default")

\* The player for the default output could not be launched, the one for the
\* mixer has played to its end all the same, and the call has returned the
\* error.
C28_Witness ==
    /\ play_pc = "returned"
    /\ play_args.v.sink_target = "Both"
    /\ status_default = "failed"
    /\ status_mixer = "exit0"
    /\ play_result = Some(IoErr)

\* The arguments carry the volume: --volume and the volume's string.
CarriesVolume(cmd, volume) ==
    \E i \in 1..(Len(cmd) - 1) :
        cmd[i] = "--volume" /\ cmd[i + 1] = VolumeToString(volume)

\* C29: every player that is run, the one for the default output and the
\* one for the mixer alike, is given the volume of the call together with
\* the path of the file.
C29_VolumeOnEveryInvocation ==
    /\ status_default # "none" =>
          /\ CarriesVolume(cmd_default, play_args.v.volume)
          /\ \E i \in DOMAIN cmd_default : cmd_default[i] = play_args.v.path
    /\ status_mixer # "none" =>
          /\ CarriesVolume(cmd_mixer, play_args.v.volume)
          /\ \E i \in DOMAIN cmd_mixer : cmd_mixer[i] = play_args.v.path

\* C30: no temporary file that was created is left when the work it was
\* created for has ended; a copy that failed has ended it.
C30_NoTempFileLeft ==
    (pitch_pc = "returned" /\ pitch_result = Some(IoErr)) =>
        temp_file = Absent

\* A step in which the session of a panel device ends: its read has
\* failed, and the next device's session starts or the device loop is over.
SessionEnds ==
    /\ panel_pc = "read"
    /\ devices_left' # devices_left \/ panel_pc' = "ended"

\* C31: when the session of a panel device ends the recording in progress
\* is stopped and the delete-holds are discarded: after the session has
\* ended the engine is Listening and no delete entry remains.
C31_SessionEndStopsRecording ==
    [][SessionEnds =>
          /\ user_data'.state = Listening
          /\ pending_delete' = {}]_vars

\* C32: a failure of one panel device, of its read or of a write or flush
\* of its images, ends the session of that device only: the program is
\* never terminated by it.
C32_DeviceFailureEndsSessionOnly ==
    panel_pc # "panicked"

\* C33: the release of a key held for delete clears the key's delete entry
\* whether the file is removed, the removal fails or the hold was too
\* short; the file is then either gone or exactly as it was, and where the
\* removal failed it still exists.
C33_DeleteEntryClearedEitherWay ==
    [][\A key \in Keys :
          (/\ mode = "Edit"
           /\ active_recording_key # Some(key)
           /\ key \in pending_delete
           /\ ButtonUp(key)) =>
              /\ key \notin pending_delete'
              /\ last_delete' \in {"short", "deleted", "failed"}
              /\ files'[button_files[key]] = Absent <=>
                    last_delete' = "deleted"
              /\ last_delete' # "deleted" =>
                    /\ files' = files
                    /\ Exists(button_files[key])']_vars

\* The removal of key 1's file has failed: the entry is gone, the file is
\* still there.
C33_Witness ==
    /\ last_delete = "failed"
    /\ 1 \notin pending_delete
    /\ Exists(button_files[1])
    /\ panel_pc = "read"

\* C34: the delete entry a ButtonDown made in Edit mode is consumed only by
\* the ButtonUp of that same press, and a file is removed only by such a
\* ButtonUp, in Edit mode: never through an entry left over from an earlier
\* press.
C34_DeleteWithinOnePress ==
    [][\A key \in Keys :
          (key \in pending_delete /\ ButtonUp(key)) =>
              /\ key \notin pending_delete' => key \in fresh_delete
              /\ files' # files => (mode = "Edit" /\ key \in fresh_delete)]_vars

\* C35: whenever the engine is Listening its sample buffer is empty.
C35_ListeningBufferEmpty ==
    user_data.state = Listening => user_data.buffer = <<>>

\* A recording has been taken and written with its samples, the engine is
\* Listening again, and its buffer is empty.
C35_Witness ==
    /\ user_data.state = Listening
    /\ user_data.format # None
    /\ user_data.buffer = <<>>
    /\ \E p \in Paths : files[p] # Absent /\ files[p].data # <<>>
    /\ pc = "accept"

\* C36: while the engine is Recording its format is known, and a format
\* once known never becomes unknown again; so the unwrap of the format on an
\* accepted Stop never fails, and the lock is never poisoned by it.
C36_RecordingKnowsFormat ==
    /\ [](user_data.state.tag = "Recording" => user_data.format # None)
    /\ [][user_data.format # None => user_data'.format # None]_vars
    /\ [](lock # "poisoned")

\* An accepted Stop has unwrapped the format and holds it for the writer,
\* the guard not yet dropped.
C36_Witness ==
    /\ pc = "unlock"
    /\ lock = "ipc"
    /\ command = Some(Stop)
    /\ response = Some(Ok)
    /\ save_data # None
    /\ Some(save_data.v.format) = user_data.format

\* An accepted Stop whose recording writer has not returned yet.
StopBeforeWriterReturns ==
    /\ command = Some(Stop)
    /\ response = Some(Ok)
    /\ pc \in {"unlock", "save", "create", "write", "finalize"}

\* C37: the Ok to an accepted Stop is written to the connection only after
\* the recording writer has returned, and the next line of the connection
\* is not read before that.
C37_StopAnsweredAfterWriter ==
    /\ [](StopBeforeWriterReturns =>
             /\ Len(out[cur]) = rd[cur] - 1
             /\ ~ENABLED ReadLine)
    /\ [][(StopBeforeWriterReturns /\ ~StopBeforeWriterReturns') =>
             /\ pc' = "respond"
             /\ UNCHANGED <<out, rd>>]_vars
    /\ [][(out' # out /\ command = Some(Stop) /\ response = Some(Ok)) =>
             /\ pc = "respond"
             /\ out' = [out EXCEPT ![cur] = Append(@, Ok)]]_vars

\* The writer has returned with the recording written and finalized, the
\* Ok is about to be written, and the connection is open for a next line.
C37_Witness ==
    /\ pc = "respond"
    /\ command = Some(Stop)
    /\ response = Some(Ok)
    /\ save_data # None
    /\ files[save_data.v.path] # Absent
    /\ files[save_data.v.path].finalized
    /\ files[save_data.v.path].data = save_data.v.buffer
    /\ Len(out[cur]) = rd[cur] - 1
    /\ conn[cur] = "open"

\* C38: on Start and on Stop the in-process command loop does what the
\* socket handler does: the same engine state and buffer after, the same
\* recording handed to the writer, outside the lock; it only makes no
\* response.
C38_ChannelHandlerEquivalent ==
    /\ [][(pc = "match" /\ pc' # "match") =>
             LET h == HandleCommand(user_data, command.v)
             IN  /\ user_data' = h.ud
                 /\ save_data' = h.save_data
                 /\ (pc' = "panicked") = h.panicked
                 /\ response' = None]_vars
    /\ [][(pc = "unlock" /\ pc' # "unlock") =>
             /\ lock' = "free"
             /\ pc' = IF save_data # None THEN "save" ELSE "respond"]_vars
    /\ [](\A ud \in EngineStates : \A cmd \in ChannelCommands :
             LET a == ChannelCommand(ud, cmd)
                 b == HandleCommand(ud, cmd)
             IN  /\ a.ud = b.ud
                 /\ a.save_data = b.save_data
                 /\ a.panicked = b.panicked)

\* The command loop has handled a Start and a Stop and has called the
\* writer, outside the lock, with the sample recorded between them.
C38_Witness ==
    /\ pc = "save"
    /\ lock = "free"
    /\ handled = <<Start(PathOf(1)), Stop>>
    /\ save_data # None
    /\ save_data.v.buffer # <<>>
    /\ save_data.v.path = PathOf(1)
    /\ user_data.state = Listening
    /\ response = None

\* a is the beginning of b.
IsPrefix(a, b) == Len(a) <= Len(b) /\ SubSeq(b, 1, Len(a)) = a

\* C39: the command loop handles the commands in the order they were sent;
\* it ends only when no Sender is left and every command sent has been
\* handled; and once the last Sender is dropped it does end.
C39_ChannelLoopDrains ==
    /\ [](IsPrefix(handled, sent_cmds))
    /\ [](pc = "exited" =>
             (~senders /\ channel = <<>> /\ handled = sent_cmds))
    /\ (~senders ~> pc = "exited")

\* Three commands were sent, the last of them after the loop had begun the
\* first; the Sender was dropped, and the loop has handled all three and
\* has ended.
C39_Witness ==
    /\ pc = "exited"
    /\ handled = <<Start(PathOf(1)), Stop, Start(PathOf(2))>>
    /\ user_data.state = Recording(PathOf(2))

\* C40: when main has run to its end and the program has exited, the
\* server it started is no longer running: the monitor task has seen the
\* shutdown signal and has killed it, or it had ended on its own.
C40_ServerKilledAtExit ==
    panel_pc = "exited" => server_process # "running"

====
